---------------------------- MODULE Spec2Model ----------------------------
(***************************************************************************)
(* A model of AnalizadorComplejidades: the pseudocode AST, the recursion   *)
(* classifier (recurrence_solver.py), the asymptotic engine                *)
(* (asymptotic_analyzer.py), the mathematical cost engine                  *)
(* (math_analyzer.py), the DP analyzer (dp_analyzer.py), the recurrence    *)
(* tree models and builder, and the orchestrator that runs them.           *)
(*                                                                         *)
(* Python strings that the code formats and parses again (recurrence       *)
(* relations, equations, complexities) are sequences of one-character      *)
(* strings, so that formatting and parsing are computed, not assumed.      *)
(* Python lists are sequences, AST nodes are records whose field k is the  *)
(* class name and whose other fields are the attributes of the class;      *)
(* hasattr(node, 'body') is "body" \in DOMAIN node.  An absent else block  *)
(* (else_body = None) is the empty sequence: every use in the code treats  *)
(* None and [] alike.                                                      *)
(***************************************************************************)
EXTENDS Integers, Sequences, FiniteSets, Bags, TLC

(***************************************************************************)
(* Strings as character sequences                                          *)
(***************************************************************************)
Digits == <<"0", "1", "2", "3", "4", "5", "6", "7", "8", "9">>

IsDigit(c) == \E i \in 1..10 : Digits[i] = c

DigitVal(c) == (CHOOSE i \in 1..10 : Digits[i] = c) - 1

RECURSIVE IntToStr(_)
IntToStr(n) ==
    IF n < 10 THEN <<Digits[n + 1]>>
    ELSE IntToStr(n \div 10) \o <<Digits[(n % 10) + 1]>>

RECURSIVE StrToInt(_)
StrToInt(s) ==
    IF s = <<>> THEN 0
    ELSE 10 * StrToInt(SubSeq(s, 1, Len(s) - 1)) + DigitVal(s[Len(s)])

StartsAt(s, sub, i) ==
    /\ i >= 1
    /\ i + Len(sub) - 1 <= Len(s)
    /\ SubSeq(s, i, i + Len(sub) - 1) = sub

Contains(s, sub) == \E i \in 1..(Len(s) + 1) : StartsAt(s, sub, i)

RECURSIVE DigitRunEnd(_, _)
DigitRunEnd(s, i) ==
    IF i <= Len(s) /\ IsDigit(s[i]) THEN DigitRunEnd(s, i + 1) ELSE i

LowerChar(c) ==
    CASE c = "T" -> "t"
      [] c = "O" -> "o"
      [] c = "F" -> "f"
      [] c = "Θ" -> "θ"
      [] OTHER -> c

Lower(s) == [i \in 1..Len(s) |-> LowerChar(s[i])]

Str_Tn_eq == <<"T", "(", "n", ")", " ", "=", " ">>
Str_plus == <<" ", "+", " ">>
Str_O1 == <<"O", "(", "1", ")">>
Str_On == <<"O", "(", "n", ")">>
Str_T_n_1 == <<"T", "(", "n", "-", "1", ")">>
Str_T_n_2 == <<"T", "(", "n", "-", "2", ")">>
Str_T_n_half == <<"T", "(", "n", "/", "2", ")">>
Str_log_n == <<"l", "o", "g", " ", "n">>

(***************************************************************************)
(* AST nodes (src/ast/nodes.py)                                            *)
(***************************************************************************)
Program(functions) == [k |-> "Program", functions |-> functions]

Function(name, params, body) ==
    [k |-> "Function", name |-> name, params |-> params, body |-> body]

Assignment(name, expr) == [k |-> "Assignment", name |-> name, expr |-> expr]

For(var, start, end, body) ==
    [k |-> "For", var |-> var, start |-> start, end |-> end, body |-> body]

While(condition, body) ==
    [k |-> "While", condition |-> condition, body |-> body]

If(condition, then_body, else_body) ==
    [k |-> "If", condition |-> condition, then_body |-> then_body,
     else_body |-> else_body]

Repeat(body, condition) ==
    [k |-> "Repeat", body |-> body, condition |-> condition]

Return(expr) == [k |-> "Return", expr |-> expr]

Call(name, args) == [k |-> "Call", name |-> name, args |-> args]

BinOp(left, op, right) ==
    [k |-> "BinOp", left |-> left, op |-> op, right |-> right]

Var(name) == [k |-> "Var", name |-> name]

Number(value) == [k |-> "Number", value |-> value]

Condition(left, op, right) ==
    [k |-> "Condition", left |-> left, op |-> op, right |-> right]

ArrayAccess(name, index) ==
    [k |-> "ArrayAccess", name |-> name, index |-> index]

BoolOp(left, op, right) ==
    [k |-> "BoolOp", left |-> left, op |-> op, right |-> right]

UnaryOp(op, operand) == [k |-> "UnaryOp", op |-> op, operand |-> operand]

hasattr(node, attr) == attr \in DOMAIN node

(***************************************************************************)
(* Recursion classifier (src/analyzer/recurrence_solver.py)                *)
(***************************************************************************)
Get(d, key, default) == IF key \in DOMAIN d THEN d[key] ELSE default

is_recursive_call(expr, func_name) ==
    expr.k = "Call" /\ expr.name = func_name

RECURSIVE traverse(_, _, _)
RECURSIVE traverse_list(_, _, _)
traverse(node, func_name, depth) ==
    LET direct ==
            IF is_recursive_call(node, func_name)
            THEN <<[depth |-> depth, arguments |-> Len(node.args),
                    location |-> <<"depth_", depth>>, node |-> node]>>
            ELSE <<>>
        with_body ==
            IF hasattr(node, "body")
            THEN traverse_list(node.body, func_name, depth + 1)
            ELSE <<>>
        by_class ==
            CASE node.k = "If" ->
                     traverse(node.condition, func_name, depth)
                     \o traverse_list(node.then_body, func_name, depth + 1)
                     \o traverse_list(node.else_body, func_name, depth + 1)
              [] node.k \in {"Return", "Assignment"} ->
                     traverse(node.expr, func_name, depth)
              [] node.k = "BinOp" ->
                     traverse(node.left, func_name, depth)
                     \o traverse(node.right, func_name, depth)
              [] node.k = "Call" -> traverse_list(node.args, func_name, depth)
              [] OTHER -> <<>>
    IN  direct \o with_body \o by_class

traverse_list(nodes, func_name, depth) ==
    IF nodes = <<>> THEN <<>>
    ELSE traverse(Head(nodes), func_name, depth)
         \o traverse_list(Tail(nodes), func_name, depth)

find_recursive_calls(function_node, func_name) ==
    traverse(function_node, func_name, 0)

RECURSIVE node_contains_recursive_return(_, _)
branch_has_recursive_return(block, func_name) ==
    \E i \in 1..Len(block) :
        node_contains_recursive_return(block[i], func_name)

node_contains_recursive_return(node, func_name) ==
    IF node.k = "Return" /\ is_recursive_call(node.expr, func_name) THEN TRUE
    ELSE IF node.k = "If"
    THEN \/ \E i \in 1..Len(node.then_body) :
                node_contains_recursive_return(node.then_body[i], func_name)
         \/ \E i \in 1..Len(node.else_body) :
                node_contains_recursive_return(node.else_body[i], func_name)
    ELSE \/ /\ hasattr(node, "body")
            /\ \E i \in 1..Len(node.body) :
                   node_contains_recursive_return(node.body[i], func_name)
         \/ /\ hasattr(node, "expr")
            /\ is_recursive_call(node.expr, func_name)

RECURSIVE exclusive_traverse(_, _)
exclusive_traverse(node, func_name) ==
    IF node.k = "If"
    THEN \/ /\ branch_has_recursive_return(node.then_body, func_name)
            /\ branch_has_recursive_return(node.else_body, func_name)
         \/ \E i \in 1..Len(node.then_body) :
                exclusive_traverse(node.then_body[i], func_name)
         \/ \E i \in 1..Len(node.else_body) :
                exclusive_traverse(node.else_body[i], func_name)
    ELSE /\ hasattr(node, "body")
         /\ \E i \in 1..Len(node.body) :
                exclusive_traverse(node.body[i], func_name)

has_mutually_exclusive_recursive_returns(function_node) ==
    \E i \in 1..Len(function_node.body) :
        exclusive_traverse(function_node.body[i], function_node.name)

\* The variable names of the inputs whose lower-case form contains 'mid'.
MidNames == {"mid", "middle"}

RECURSIVE argument_mentions_midpoint(_)
argument_mentions_midpoint(arg) ==
    CASE arg.k = "Var" -> arg.name \in MidNames
      [] arg.k = "BinOp" -> \/ argument_mentions_midpoint(arg.left)
                            \/ argument_mentions_midpoint(arg.right)
      [] OTHER -> FALSE

RECURSIVE CallArgs(_)
CallArgs(recursive_calls) ==
    IF recursive_calls = <<>> THEN <<>>
    ELSE Head(recursive_calls).node.args \o CallArgs(Tail(recursive_calls))

analyze_call_pattern(recursive_calls, exclusive_branch_calls) ==
    LET num_calls == Len(recursive_calls)
        args == CallArgs(recursive_calls)
        is_div(arg) == hasattr(arg, "op") /\ arg.op = "/"
        is_sub(arg) == hasattr(arg, "op") /\ arg.op = "-"
        has_division == \E i \in 1..Len(args) : is_div(args[i])
        has_subtraction == \E i \in 1..Len(args) : is_sub(args[i])
        subtraction_values ==
            { args[i].right.value :
                i \in { j \in 1..Len(args) :
                          /\ is_sub(args[j])
                          /\ hasattr(args[j], "right")
                          /\ hasattr(args[j].right, "value") } }
        has_multiple_subtractions == Cardinality(subtraction_values) >= 2
        flags == [has_division |-> has_division,
                  has_subtraction |-> has_subtraction,
                  has_multiple_subtractions |-> has_multiple_subtractions]
        typed(p) == [pattern_type |-> p] @@ flags
    IN  IF num_calls = 0 THEN [pattern_type |-> "none"]
        ELSE IF num_calls = 1
        THEN (IF has_division THEN typed("divide_conquer") ELSE typed("linear"))
        ELSE IF num_calls = 2
        THEN (IF exclusive_branch_calls THEN typed("binary_exclusive")
              ELSE IF has_multiple_subtractions THEN typed("binary")
              ELSE typed("divide_conquer"))
        ELSE [call_count |-> num_calls] @@ typed("multiple")

calls_use_size_param(recursive_calls, function_node) ==
    LET args == CallArgs(recursive_calls)
        params == { function_node.params[i] :
                      i \in 1..Len(function_node.params) }
    IN  \E i \in 1..Len(args) :
            /\ args[i].k = "BinOp"
            /\ args[i].op = "-"
            /\ args[i].left.k = "Var"
            /\ (args[i].left.name \in params \/ args[i].left.name = "n")

kT(count, inner) == IntToStr(count) \o <<"T", "(", "n">> \o inner \o <<")">>

\* A derivation that gives every function the relation of two half-size
\* calls with constant work.
relation_with_constant_work(function_node, recursive_calls, exclusive_branch_calls) ==
    Str_Tn_eq \o kT(2, <<"/", "2">>) \o Str_plus \o Str_O1

derive_recurrence_relation(function_node, recursive_calls, exclusive_branch_calls) ==
    LET num_calls == Len(recursive_calls)
        pattern_info ==
            analyze_call_pattern(recursive_calls, exclusive_branch_calls)
        pattern_type == Get(pattern_info, "pattern_type", "none")
        has_division == Get(pattern_info, "has_division", FALSE)
        has_subtraction == Get(pattern_info, "has_subtraction", FALSE)
        has_multiple_subtractions ==
            Get(pattern_info, "has_multiple_subtractions", FALSE)
        uses_size_param == calls_use_size_param(recursive_calls, function_node)
    IN  IF exclusive_branch_calls
        THEN Str_Tn_eq \o Str_T_n_half \o Str_plus \o Str_O1
        ELSE CASE pattern_type = "linear" ->
                      Str_Tn_eq \o Str_T_n_1 \o Str_plus \o Str_O1
               [] pattern_type = "binary" ->
                      IF ~has_multiple_subtractions
                      THEN Str_Tn_eq \o Str_T_n_half \o Str_plus \o Str_On
                      ELSE Str_Tn_eq \o Str_T_n_1 \o Str_plus \o Str_T_n_2
                           \o Str_plus \o Str_O1
               [] pattern_type = "binary_exclusive" ->
                      Str_Tn_eq \o Str_T_n_half \o Str_plus \o Str_O1
               [] pattern_type = "divide_conquer" ->
                      IF /\ num_calls = 2
                         /\ has_subtraction
                         /\ ~has_division
                         /\ uses_size_param
                      THEN Str_Tn_eq \o kT(2, <<"-", "1">>) \o Str_plus
                           \o Str_O1
                      ELSE IF num_calls = 1
                      THEN Str_Tn_eq \o Str_T_n_half \o Str_plus \o Str_O1
                      ELSE IF num_calls = 2
                      THEN Str_Tn_eq \o kT(2, <<"/", "2">>) \o Str_plus
                           \o Str_On
                      ELSE Str_Tn_eq
                           \o kT(num_calls, <<"/">> \o IntToStr(num_calls))
                           \o Str_plus \o Str_On
               [] pattern_type = "multiple" ->
                      Str_Tn_eq
                      \o kT(Get(pattern_info, "call_count", num_calls),
                            <<"-", "1">>)
                      \o Str_plus \o Str_O1
               [] OTHER ->
                      IF num_calls = 1
                      THEN Str_Tn_eq \o Str_T_n_1 \o Str_plus \o Str_O1
                      ELSE Str_Tn_eq \o kT(num_calls, <<"-", "1">>)
                           \o Str_plus \o Str_O1

get_closed_form_solution(recurrence_formula, solution) ==
    LET formula == Lower(recurrence_formula)
        has(sub) == Contains(formula, Lower(sub))
        linear == Str_Tn_eq \o Str_T_n_1 \o Str_plus \o Str_O1
        hanoi == Str_Tn_eq \o kT(2, <<"-", "1">>) \o Str_plus \o Str_O1
        fib == Str_Tn_eq \o Str_T_n_1 \o Str_plus \o Str_T_n_2 \o Str_plus
               \o Str_O1
        merge == Str_Tn_eq \o kT(2, <<"/", "2">>) \o Str_plus \o Str_On
        halves == Str_Tn_eq \o kT(2, <<"/", "2">>) \o Str_plus \o Str_O1
        bsearch == Str_Tn_eq \o Str_T_n_half \o Str_plus \o Str_O1
    IN  CASE recurrence_formula = linear -> "O(n)"
          [] recurrence_formula = hanoi -> "O(2^n)"
          [] recurrence_formula = fib -> "O(2^n)"
          [] recurrence_formula = merge -> "O(n log n)"
          [] recurrence_formula = halves -> "O(n)"
          [] recurrence_formula = bsearch -> "O(log n)"
          [] OTHER ->
             IF has(Str_T_n_1) /\ ~has(kT(2, <<"-", "1">>)) THEN "O(n)"
             ELSE IF \/ has(kT(2, <<"-", "1">>))
                     \/ has(Str_T_n_1 \o Str_plus \o Str_T_n_2)
             THEN "O(2^n)"
             ELSE IF has(Str_T_n_half) /\ has(<<"+", " ">> \o Str_On)
             THEN "O(n log n)"
             ELSE IF has(Str_T_n_half) /\ has(<<"+", " ">> \o Str_O1)
             THEN "O(n)"
             ELSE solution

\* The key is the function's name joined with "body_<number of statements>".
generate_function_key(function_node) ==
    <<function_node.name, "body", Len(function_node.body)>>

\* The analysis a call computes when its key is not in the cache.
\* The analysis dictionary before any call is found.
analysis_defaults(function_node, exclusive_calls) ==
    [function_name |-> function_node.name,
     has_recursion |-> FALSE,
     recursive_calls |-> <<>>,
     base_cases |-> <<>>,
     work_per_call |-> "O(1)",
     recurrence_relation |-> <<>>,
     estimated_complexity |-> "O(1)",
     pattern_type |-> "none",
     exclusive_branch_calls |-> exclusive_calls]

solved_relation(relation) ==
    [recurrence_relation |-> relation,
     estimated_complexity |-> get_closed_form_solution(relation, "")]

analysis_of_calls(function_node, recursive_calls, exclusive_calls) ==
    IF recursive_calls = <<>>
    THEN analysis_defaults(function_node, exclusive_calls)
    ELSE [has_recursion |-> TRUE, recursive_calls |-> recursive_calls]
         @@ solved_relation(derive_recurrence_relation(function_node,
                                                       recursive_calls,
                                                       exclusive_calls))
         @@ analyze_call_pattern(recursive_calls, exclusive_calls)
         @@ analysis_defaults(function_node, exclusive_calls)

\* The analysis computed on a cache miss.
fresh_analysis(function_node) ==
    analysis_of_calls(function_node,
                      find_recursive_calls(function_node, function_node.name),
                      has_mutually_exclusive_recursive_returns(function_node))

store_analysis(cache, func_key, analysis) ==
    [result |-> analysis, cache |-> (func_key :> analysis) @@ cache]

\* analyze_recursive_algorithm on an analyzer whose analysis_cache is cache:
\* the value returned and the cache afterwards.
analyze_recursive_algorithm(cache, function_node) ==
    LET func_key == generate_function_key(function_node)
    IN  IF func_key \in DOMAIN cache
        THEN [result |-> cache[func_key], cache |-> cache]
        ELSE store_analysis(cache, func_key, fresh_analysis(function_node))

(***************************************************************************)
(* Asymptotic engine (src/analyzer/asymptotic_analyzer.py)                 *)
(***************************************************************************)
\* Python's None in the Optional[int] fields a and b of RecurrenceEquation.
None == -1

RecurrenceEquation(equation, a, b, f_n, base_cases, method_used) ==
    [equation |-> equation, a |-> a, b |-> b, f_n |-> f_n,
     base_cases |-> base_cases, method_used |-> method_used]

AsymptoticBound(complexity, notation, confidence, explanation) ==
    [complexity |-> complexity, notation |-> notation,
     confidence |-> confidence, explanation |-> explanation]

MaxOf(S) == CHOOSE x \in S : \A y \in S : y <= x

RECURSIVE count_loop_depth(_, _)
count_loop_depth(node, current_depth) ==
    LET over(items, d) ==
            MaxOf({current_depth}
                  \cup { count_loop_depth(items[i], d) : i \in 1..Len(items) })
    IN  CASE node.k \in {"For", "While", "Repeat"} ->
                 over(node.body, current_depth + 1)
          [] node.k = "Function" -> over(node.body, current_depth)
          [] node.k = "Program" -> over(node.functions, current_depth)
          [] node.k = "If" ->
                 MaxOf({over(node.then_body, current_depth),
                        over(node.else_body, current_depth)})
          [] OTHER -> current_depth

analyze_iterative(node) ==
    LET loop_depth == count_loop_depth(node, 0)
        equation ==
            CASE loop_depth = 0 -> Str_Tn_eq \o <<"c">>
              [] loop_depth = 1 -> Str_Tn_eq \o <<"c", "n">>
              [] loop_depth = 2 -> Str_Tn_eq \o <<"c", "n", "²">>
              [] OTHER -> Str_Tn_eq \o <<"c", "n", "^">> \o IntToStr(loop_depth)
    IN  RecurrenceEquation(equation, None, None, <<"c">>,
                           <<<<"T(0)", "c">>>>, "Loop Analysis")

RECURSIVE has_loop(_)
has_loop(node) ==
    \/ node.k \in {"For", "While", "Repeat"}
    \/ /\ hasattr(node, "body")
       /\ \E i \in 1..Len(node.body) : has_loop(node.body[i])
    \/ /\ node.k = "If"
       /\ \/ \E i \in 1..Len(node.then_body) : has_loop(node.then_body[i])
          \/ \E i \in 1..Len(node.else_body) : has_loop(node.else_body[i])

RECURSIVE has_middle_calculation(_)
has_middle_calculation(node) ==
    LET some(items) == \E i \in 1..Len(items) : has_middle_calculation(items[i])
    IN  \/ /\ node.k = "Assignment"
           /\ node.name \in MidNames
           /\ hasattr(node.expr, "op")
           /\ node.expr.op \in {"/", "//"}
        \/ hasattr(node, "body") /\ some(node.body)
        \/ hasattr(node, "then_body") /\ some(node.then_body)
        \/ hasattr(node, "else_body") /\ some(node.else_body)

\* The function names of the inputs that contain 'busqueda', 'search' or
\* 'binary'.
SearchNames == {"busqueda_binaria", "binary_search"}

\* re.search(r'(\d+)T\(n/(\d+)\)', relation): the start positions of a match.
MasterMatches(relation) ==
    { i \in 1..Len(relation) :
        /\ IsDigit(relation[i])
        /\ LET j == DigitRunEnd(relation, i)
               q == j + 4
           IN  /\ StartsAt(relation, <<"T", "(", "n", "/">>, j)
               /\ q <= Len(relation)
               /\ IsDigit(relation[q])
               /\ DigitRunEnd(relation, q) <= Len(relation)
               /\ relation[DigitRunEnd(relation, q)] = ")" }

MinOf(S) == CHOOSE x \in S : \A y \in S : x <= y

BaseCases01 == <<<<"T(0)", "c">>, <<"T(1)", "c">>>>

construct_recurrence(node, recursive_info) ==
    LET num_calls == Len(Get(recursive_info, "recursive_calls", <<>>))
        pattern_type == Get(recursive_info, "pattern_type", "linear")
        first_is_search ==
            /\ hasattr(node, "functions")
            /\ node.functions # <<>>
            /\ \/ node.functions[1].name \in SearchNames
               \/ has_middle_calculation(node.functions[1])
        relation == Get(recursive_info, "recurrence_relation", <<>>)
        matches == MasterMatches(relation)
        i == MinOf(matches)
        j == DigitRunEnd(relation, i)
        a == IF matches # {} THEN StrToInt(SubSeq(relation, i, j - 1))
             ELSE num_calls
        b == IF matches # {}
             THEN StrToInt(SubSeq(relation, j + 4,
                                  DigitRunEnd(relation, j + 4) - 1))
             ELSE 2
        loop_in_first ==
            /\ hasattr(node, "functions")
            /\ node.functions # <<>>
            /\ has_loop(node.functions[1])
        f_n == IF \/ loop_in_first
                  \/ Contains(relation, Str_On)
                  \/ Contains(Lower(relation), <<"+", " ", "n">>)
               THEN <<"n">> ELSE <<"c">>
    IN  IF ~Get(recursive_info, "has_recursion", FALSE)
        THEN analyze_iterative(node)
        ELSE CASE pattern_type = "linear" ->
                 RecurrenceEquation(
                     Str_Tn_eq \o Str_T_n_1 \o Str_plus \o <<"c">>,
                     1, None, <<"c">>, BaseCases01, "Substitution")
               [] pattern_type = "binary" ->
                 IF first_is_search
                 THEN RecurrenceEquation(
                          Str_Tn_eq \o Str_T_n_half \o Str_plus \o <<"c">>,
                          1, 2, <<"c">>,
                          <<<<"T(1)", "c">>, <<"T(0)", "c">>>>,
                          "Master Theorem")
                 ELSE RecurrenceEquation(
                          Str_Tn_eq \o Str_T_n_1 \o Str_plus \o Str_T_n_2
                          \o Str_plus \o <<"c">>,
                          2, None, <<"c">>, BaseCases01, "Recurrence Tree")
               [] pattern_type = "divide_conquer" ->
                 RecurrenceEquation(
                     Str_Tn_eq \o kT(a, <<"/">> \o IntToStr(b)) \o Str_plus
                     \o f_n,
                     a, b, f_n, <<<<"T(1)", "c">>>>, "Master Theorem")
               [] OTHER ->
                 RecurrenceEquation(
                     Str_Tn_eq \o kT(num_calls, <<"-", "1">>) \o Str_plus
                     \o <<"c">>,
                     num_calls, None, <<"c">>, BaseCases01, "Substitution")

\* The exponent in the first match of re.search(r'n\^(\d+)', s), as text;
\* the empty text when nothing matches.
PowerText(s) ==
    LET starts == { i \in 1..Len(s) :
                      /\ StartsAt(s, <<"n", "^">>, i)
                      /\ i + 2 <= Len(s)
                      /\ IsDigit(s[i + 2]) }
        i == MinOf(starts)
    IN  IF starts = {} THEN <<>>
        ELSE SubSeq(s, i + 2, DigitRunEnd(s, i + 2) - 1)

RECURSIVE Pow(_, _)
Pow(x, e) == IF e = 0 THEN 1 ELSE x * Pow(x, e - 1)

\* math.log(x) in millionths, rounded, for x in 1..100.
LnMicro ==
    <<
       0, 693147, 1098612, 1386294, 1609438, 1791759, 1945910, 2079442, 2197225, 2302585,
       2397895, 2484907, 2564949, 2639057, 2708050, 2772589, 2833213, 2890372, 2944439, 2995732,
       3044522, 3091042, 3135494, 3178054, 3218876, 3258097, 3295837, 3332205, 3367296, 3401197,
       3433987, 3465736, 3496508, 3526361, 3555348, 3583519, 3610918, 3637586, 3663562, 3688879,
       3713572, 3737670, 3761200, 3784190, 3806662, 3828641, 3850148, 3871201, 3891820, 3912023,
       3931826, 3951244, 3970292, 3988984, 4007333, 4025352, 4043051, 4060443, 4077537, 4094345,
       4110874, 4127134, 4143135, 4158883, 4174387, 4189655, 4204693, 4219508, 4234107, 4248495,
       4262680, 4276666, 4290459, 4304065, 4317488, 4330733, 4343805, 4356709, 4369448, 4382027,
       4394449, 4406719, 4418841, 4430817, 4442651, 4454347, 4465908, 4477337, 4488636, 4499810,
       4510860, 4521789, 4532599, 4543295, 4553877, 4564348, 4574711, 4584967, 4595120, 4605170
    >>

Ln(x) == LnMicro[x]

\* Which case of the Master Theorem the comparisons c < log_b(a) - 0.01 and
\* |c - log_b(a)| < 0.01 select, with log_b(a) = math.log(a) / math.log(b).
\* Multiplied by 100 * math.log(b) > 0 they are comparisons of integers.
master_case(a, b, c) ==
    LET distance == 100 * c * Ln(b) - 100 * Ln(a)
    IN  IF (100 * c + 1) * Ln(b) < 100 * Ln(a) THEN 1
        ELSE IF distance < Ln(b) /\ -distance < Ln(b) THEN 2
        ELSE 3

\* f"{value:.2f}" for value = log_b(a): the hundredths, rounded.
two_decimals(a, b) ==
    LET hundredths == (200 * Ln(a) + Ln(b)) \div (2 * Ln(b))
        cents == hundredths % 100
    IN  IntToStr(hundredths \div 100) \o <<".">>
        \o (IF cents < 10 THEN <<"0">> ELSE <<>>) \o IntToStr(cents)

\* _format_complexity(log_b(a)): an exponent within 0.01 of an integer is
\* written as that integer, any other with two decimals.
format_complexity(a, b) ==
    LET int_val == (2 * Ln(a) + Ln(b)) \div (2 * Ln(b))
        distance == 100 * Ln(a) - 100 * int_val * Ln(b)
    IN  IF distance < Ln(b) /\ -distance < Ln(b)
        THEN CASE int_val = 0 -> <<"1">>
               [] int_val = 1 -> <<"n">>
               [] OTHER -> <<"n", "^">> \o IntToStr(int_val)
        ELSE <<"n", "^">> \o two_decimals(a, b)

apply_master_theorem(rec) ==
    LET a == rec.a
        b == rec.b
        f_n == rec.f_n
        power == PowerText(f_n)
        c == CASE f_n \in {<<"c">>, <<"1">>} -> 0
               [] f_n = <<"n">> -> 1
               [] f_n = <<"n", "^", "2">> -> 2
               [] OTHER -> IF power # <<>> THEN StrToInt(power) ELSE 1
        case == master_case(a, b, c)
        complexity ==
            CASE case = 1 -> format_complexity(a, b)
              [] case = 2 ->
                   (CASE c = 0 -> <<"l", "o", "g", " ", "n">>
                      [] c = 1 -> <<"n", " ", "l", "o", "g", " ", "n">>
                      [] OTHER -> <<"n", "^">> \o IntToStr(c)
                                  \o <<" ", "l", "o", "g", " ", "n">>)
              [] OTHER ->
                   IF c = 1 THEN <<"n">> ELSE <<"n", "^">> \o IntToStr(c)
    IN  IF a = None \/ b = None
        THEN AsymptoticBound(<<"n">>, "Θ", 70,
                             <<"Teorema Maestro no aplicable">>)
        ELSE AsymptoticBound(complexity, "Θ", 95,
                             <<"Teorema Maestro Caso", case, a, b>>)

apply_substitution(rec) ==
    LET a == IF rec.a = None \/ rec.a = 0 THEN 1 ELSE rec.a
    IN  IF a = 1
        THEN AsymptoticBound(<<"n">>, "Θ", 95, <<"Sustitución", 1>>)
        ELSE AsymptoticBound(IntToStr(a) \o <<"^", "n">>, "Θ", 95,
                             <<"Sustitución", a>>)

apply_tree_method(rec) ==
    IF Contains(rec.equation, Str_T_n_1 \o Str_plus \o Str_T_n_2)
    THEN AsymptoticBound(<<"2", "^", "n">>, "Θ", 90,
                         <<"Método del árbol: Ramificación binaria">>)
    ELSE IF rec.a # None /\ rec.a > 1
    THEN AsymptoticBound(IntToStr(rec.a) \o <<"^", "n">>, "Θ", 90,
                         <<"Método del árbol: Ramificación", rec.a>>)
    ELSE AsymptoticBound(<<"n">>, "Θ", 90,
                         <<"Método del árbol: Profundidad lineal">>)

analyze_loops(rec) ==
    LET equation == rec.equation
        power == PowerText(equation)
        complexity ==
            IF Contains(equation, <<"n", "^">>)
            THEN (IF power # <<>> THEN <<"n", "^">> \o power ELSE <<"n">>)
            ELSE IF Contains(equation, <<"n", "²">>) THEN <<"n", "^", "2">>
            ELSE IF \/ Contains(equation, <<"c", "n">>)
                    \/ Contains(equation, Str_Tn_eq \o <<"n">>)
            THEN <<"n">>
            ELSE <<"1">>
    IN  AsymptoticBound(complexity, "Θ", 95, <<"Análisis de bucles">>)

\* A solver that answers every recurrence with the fallback bound of
\* _solve_recurrence.
solve_with_fallback(recurrence) ==
    AsymptoticBound(<<"n">>, "O", 50, <<"Default analysis">>)

solve_recurrence(recurrence) ==
    CASE recurrence.method_used = "Master Theorem" ->
             apply_master_theorem(recurrence)
      [] recurrence.method_used = "Substitution" ->
             apply_substitution(recurrence)
      [] recurrence.method_used = "Recurrence Tree" ->
             apply_tree_method(recurrence)
      [] recurrence.method_used = "Loop Analysis" -> analyze_loops(recurrence)
      [] OTHER -> AsymptoticBound(<<"n">>, "O", 50, <<"Default analysis">>)

\* analyze_function_node: the pair (recurrence, bound).
\* The correction for linear recursion reported constant.
linear_fix(recursive_info, bound) ==
    IF /\ Get(recursive_info, "pattern_type", "") = "linear"
       /\ bound.complexity \in {<<"1">>, <<>>}
    THEN [bound EXCEPT !.complexity = <<"n">>, !.notation = "Θ"]
    ELSE bound

solved_recurrence(recursive_info, recurrence) ==
    [recurrence |-> recurrence,
     bound |-> linear_fix(recursive_info, solve_recurrence(recurrence))]

analyze_function_node(func_node, recursive_info) ==
    solved_recurrence(recursive_info,
                      construct_recurrence(func_node, recursive_info))

\* f"{heur_bound.notation}({heur_bound.complexity})"
heur_complexity(bound) == <<bound.notation, "(">> \o bound.complexity \o <<")">>

(***************************************************************************)
(* Mathematical engine (src/analyzer/math_analyzer.py)                     *)
(*                                                                         *)
(* A sympy cost expression is an integer plus a bag of applied functions:  *)
(* T(arg) for a recursive call, T_<name>(n) for the cost symbol of another *)
(* function, and Max, Sum and k* for the costs sympy leaves unevaluated.   *)
(***************************************************************************)
Cost(const, terms) == [const |-> const, terms |-> terms]

Applied(func, arg) == [func |-> func, arg |-> arg]

Term(func, arg) == Cost(0, SetToBag({Applied(func, arg)}))

cost_add(a, b) == Cost(a.const + b.const, a.terms (+) b.terms)

RECURSIVE safe_sum(_)
safe_sum(costs) ==
    IF costs = <<>> THEN Cost(0, EmptyBag)
    ELSE cost_add(Head(costs), safe_sum(Tail(costs)))

\* Whether an application of T occurs in the expression, also inside the
\* arguments of Max, Sum and k*.
RECURSIVE expr_has_recurrence(_)
expr_has_recurrence(expr) ==
    \E t \in BagToSet(expr.terms) :
        \/ t.func = <<"T">>
        \/ t.func = <<"Max">> /\ (\/ expr_has_recurrence(t.arg.left)
                                  \/ expr_has_recurrence(t.arg.right))
        \/ t.func \in {<<"Sum">>, <<"k*">>} /\ expr_has_recurrence(t.arg.body)

\* sympy.Max: the larger integer when both sides differ by an integer only,
\* the unevaluated Max otherwise.
cost_max(a, b) ==
    IF a.terms = b.terms
    THEN Cost(IF a.const >= b.const THEN a.const ELSE b.const, a.terms)
    ELSE Term(<<"Max">>, [left |-> a, right |-> b])

\* T_<name>(n), the cost symbol analyze gives every function it has seen.
cost_symbol(name) == Term(<<"T_", name>>, Var("n"))

\* _get_cost of a statement or expression.  Classes without a visitor
\* (Repeat, ArrayAccess, ...) take _get_cost_default.
RECURSIVE get_cost(_, _, _)
get_cost(node, current_func_name, function_costs) ==
    LET cost(x) == get_cost(x, current_func_name, function_costs)
        block(items) == safe_sum([i \in 1..Len(items) |-> cost(items[i])])
        one == Cost(1, EmptyBag)
        zero == Cost(0, EmptyBag)
    IN  CASE node.k = "If" ->
                 LET then_cost == block(node.then_body)
                     else_cost == block(node.else_body)
                     then_has_rec == expr_has_recurrence(then_cost)
                     else_has_rec == expr_has_recurrence(else_cost)
                     branch_cost ==
                         IF then_has_rec = else_has_rec
                         THEN cost_max(then_cost, else_cost)
                         ELSE IF then_has_rec THEN then_cost ELSE else_cost
                 IN  cost_add(cost(node.condition), branch_cost)
          [] node.k = "For" ->
                 LET body_cost == block(node.body)
                     total_cost ==
                         IF body_cost = zero THEN zero
                         ELSE Term(<<"Sum">>,
                                   [body |-> body_cost, var |-> node.var,
                                    start |-> node.start, end |-> node.end])
                 IN  IF body_cost = zero THEN zero
                     ELSE cost_add(total_cost,
                                   cost_add(cost(node.start), cost(node.end)))
          [] node.k = "While" ->
                 Term(<<"k*">>,
                      [body |-> cost_add(cost(node.condition),
                                         block(node.body))])
          [] node.k = "Assignment" -> cost_add(cost(node.expr), one)
          [] node.k = "Return" -> cost(node.expr)
          [] node.k \in {"BinOp", "Condition"} ->
                 cost_add(cost_add(cost(node.left), cost(node.right)), one)
          [] node.k = "Call" ->
                 LET arg_costs == block(node.args)
                 IN  IF node.name = current_func_name
                     THEN cost_add(arg_costs,
                                   Term(<<"T">>,
                                        IF node.args # <<>> THEN node.args[1]
                                        ELSE Var("n")))
                     ELSE cost_add(arg_costs,
                                   Get(function_costs, node.name, one))
          [] OTHER -> one

\* _get_cost_Function: the equation T(n) = body_cost when the body cost
\* holds a recursive term, the body cost itself otherwise.
get_cost_Function(node, function_costs) ==
    LET body_cost ==
            safe_sum([i \in 1..Len(node.body) |->
                         get_cost(node.body[i], node.name, function_costs)])
    IN  [kind |-> IF expr_has_recurrence(body_cost) THEN "Eq" ELSE "Expr",
         rhs |-> body_cost]

\* solve: the order sympy computes for the raw result.  It is a function of
\* the raw result and, through _fallback_complexity, of the pattern and the
\* relation in function_metadata; it is kept symbolic.
solve(expr_or_eq, metadata) ==
    [kind |-> "O", of |-> expr_or_eq,
     pattern |-> Get(metadata, "pattern_type", "none"),
     relation |-> Get(metadata, "recurrence_relation", <<>>)]

\* MathematicalAnalyzer.analyze on a program, from the engine's
\* function_costs and the analysis cache of its own classifier: the raw and
\* solved results per function name and the two dictionaries afterwards.
\* (Every recursive argument of the programs analysed here mentions n, so
\* _normalize_recursive_terms replaces no term.)
RECURSIVE classify_all(_, _)
classify_all(functions, cache) ==
    IF functions = <<>> THEN cache
    ELSE classify_all(Tail(functions),
                      analyze_recursive_algorithm(cache, Head(functions)).cache)

\* The last function of the program with the given name: a later function
\* overwrites the dictionary entries of an earlier one of the same name.
last_of(functions, name) ==
    functions[MaxOf({ i \in 1..Len(functions) : functions[i].name = name })]

function_names(functions) == { functions[i].name : i \in 1..Len(functions) }

math_results(functions, costs, cache, raw) ==
    [last_raw_results |-> raw,
     final_complexities |->
         [name \in function_names(functions) |->
             solve(raw[name],
                   analyze_recursive_algorithm(
                       cache, last_of(functions, name)).result)],
     function_costs |-> costs,
     math_cache |-> cache]

math_visit(functions, costs, math_cache) ==
    math_results(functions, costs, classify_all(functions, math_cache),
                 [name \in function_names(functions) |->
                     get_cost_Function(last_of(functions, name), costs)])

math_analyze(program_node, function_costs, math_cache) ==
    math_visit(program_node.functions,
               [name \in function_names(program_node.functions) |->
                   cost_symbol(name)] @@ function_costs,
               math_cache)

(***************************************************************************)
(* Orchestrator (src/logic/analysis_orchestrator.py)                       *)
(***************************************************************************)
\* The source texts handed to the orchestrator and what parse_code makes of
\* them: an exception for text outside the grammar, a Program otherwise.
SrcGarbage == "function ( begin"

SrcNoFunctions == ""

SrcG == "function g(n) begin x = 1 return x end"

SrcH == "function h(n) begin x = call g(n) return x end"

SrcCountdown == "function f(n) begin return call f(n - 1) end"

SrcOne == "function f(n) begin return 1 end"

Sources == {SrcGarbage, SrcNoFunctions, SrcG, SrcH, SrcCountdown, SrcOne}

ParseError == "No terminal matches '(' in the current parser context"

parse_code(code) ==
    LET tree(functions) ==
            [raised |-> <<>>, ast |-> Program(functions)]
    IN  CASE code = SrcGarbage ->
                 [raised |-> <<ParseError>>, ast |-> Program(<<>>)]
          [] code = SrcNoFunctions -> tree(<<>>)
          [] code = SrcG ->
                 tree(<<Function("g", <<"n">>,
                                 <<Assignment("x", Number(1)),
                                   Return(Var("x"))>>)>>)
          [] code = SrcH ->
                 tree(<<Function("h", <<"n">>,
                                 <<Assignment("x", Call("g", <<Var("n")>>)),
                                   Return(Var("x"))>>)>>)
          [] code = SrcCountdown ->
                 tree(<<Function("f", <<"n">>,
                                 <<Return(Call("f", <<BinOp(Var("n"), "-",
                                                            Number(1))>>))>>)>>)
          [] code = SrcOne ->
                 tree(<<Function("f", <<"n">>, <<Return(Number(1))>>)>>)

\* The fields of AnalysisResult, each with the default of the dataclass.
\* A text field that holds a structured value in the model has a structured
\* "N/A"; Optional fields are the empty sequence for None.
NoExpr == [kind |-> "N/A", rhs |-> Cost(0, EmptyBag)]

NoOrder == [kind |-> "N/A", of |-> NoExpr, pattern |-> "", relation |-> <<>>]

NoTree == [root |-> "", source |-> "", math |-> NoExpr, heur |-> <<>>]

AnalysisResult(filename, name, code, ast_node, given) ==
    given @@
    [filename |-> filename, name |-> name, code |-> code,
     ast_node |-> ast_node,
     math_expression |-> NoExpr,
     math_complexity |-> NoOrder,
     heur_equation |-> <<"N/A">>,
     heur_base_cases |-> <<"N/A">>,
     heur_complexity |-> <<"N/A">>,
     heur_notation |-> "O(?)",
     heur_method |-> "N/A",
     heur_explanation |-> <<"">>,
     is_recursive |-> FALSE,
     recursion_pattern |-> "iterative",
     tree_structure_data |-> NoTree,
     error |-> <<>>,
     level_costs |-> <<>>]

\* A result that is marked as failed by its name only.
result_without_error(name_hint, code, e) ==
    AnalysisResult(name_hint, "Error", code, <<>>, [heur_explanation |-> <<e>>])

\* The except clause of process_code.
error_result(name_hint, code, e) ==
    AnalysisResult(name_hint, "Error", code, <<>>, [error |-> <<e>>])

\* "\n".join(f"   * {k} = {v}" ...) over the base cases, "N/A" without one.
RECURSIVE base_cases_lines(_)
base_cases_lines(base_cases) ==
    IF base_cases = <<>> THEN <<>>
    ELSE <<"   * ", Head(base_cases)[1], " = ", Head(base_cases)[2]>>
         \o (IF Tail(base_cases) = <<>> THEN <<>> ELSE <<"\n">>)
         \o base_cases_lines(Tail(base_cases))

base_cases_str(heur_rec) ==
    IF heur_rec.base_cases # <<>> THEN base_cases_lines(heur_rec.base_cases)
    ELSE <<"N/A">>

\* TreeStructure.analyze_equation followed by get_structure: the topology
\* the builder derives from the recurrence text, rooted at "n"; it is a
\* function of that text alone.
get_structure(from_math, math_expr, heur_equation) ==
    [root |-> "n",
     source |-> IF from_math THEN "math_expression" ELSE "heur_equation",
     math |-> IF from_math THEN math_expr ELSE NoExpr,
     heur |-> IF from_math THEN <<>> ELSE heur_equation]

\* The messages of the exceptions that a stage raises on an input it does
\* not handle.
StageErrors ==
    [classify |-> "'NoneType' object has no attribute 'name'",
     math |-> "unsupported operand type(s) for +: 'int' and 'NoneType'",
     heur |-> "'NoneType' object has no attribute 'get'",
     tree |-> "could not parse the recurrence"]

Stages == DOMAIN StageErrors

\* The engines of one orchestrator: the classifier's analysis_cache, and
\* the math engine's function_costs and the analysis_cache of its own
\* classifier.
Engines(rec_cache, costs, m_cache) ==
    [analysis_cache |-> rec_cache, function_costs |-> costs,
     math_cache |-> m_cache]

exception(stage, e, eng) == [raised |-> <<e>>, stage |-> stage, eng |-> eng]

\* The AnalysisResult built at the end of the try block.
assemble(code, name_hint, target_func, rec_info, math_expr, math_comp, heur_rec, heur_bound) ==
    AnalysisResult(name_hint, target_func.name, code, <<target_func>>,
        [math_expression |-> math_expr,
         math_complexity |-> math_comp,
         heur_equation |-> heur_rec.equation,
         heur_base_cases |-> base_cases_str(heur_rec),
         heur_complexity |-> heur_complexity(heur_bound),
         heur_notation |-> heur_bound.notation,
         heur_method |-> heur_rec.method_used,
         heur_explanation |-> heur_bound.explanation,
         is_recursive |-> rec_info.has_recursion,
         recursion_pattern |-> rec_info.pattern_type,
         tree_structure_data |->
             IF rec_info.has_recursion
             THEN get_structure(math_expr.kind = "Eq", math_expr,
                                heur_rec.equation)
             ELSE NoTree,
         level_costs |-> <<>>])

heuristic_stage(code, name_hint, target_func, rec_info, math, heur) ==
    assemble(code, name_hint, target_func, rec_info,
             math.last_raw_results[target_func.name],
             math.final_complexities[target_func.name],
             heur.recurrence, heur.bound)

\* The stages after the two engines that keep state have run: rec is the
\* classifier's call and math the math engine's.
stages(code, name_hint, raises, eng, target_func, rec, math) ==
    LET after_math == [eng EXCEPT !.analysis_cache = rec.cache,
                                  !.function_costs = math.function_costs,
                                  !.math_cache = math.math_cache]
    IN  CASE raises = "classify" ->
                 exception(raises, StageErrors[raises], eng)
          [] raises \in {"math", "heur", "tree"} ->
                 exception(raises, StageErrors[raises], after_math)
          [] OTHER ->
                 [raised |-> <<>>, stage |-> "", eng |-> after_math,
                  result |->
                      heuristic_stage(code, name_hint, target_func,
                                      rec.result, math,
                                      analyze_function_node(target_func,
                                                            rec.result))]

pipeline(code, name_hint, raises, eng, ast) ==
    IF ast.functions = <<>>
    THEN exception("functions", "No funciones", eng)
    ELSE stages(code, name_hint, raises, eng, ast.functions[1],
                analyze_recursive_algorithm(eng.analysis_cache,
                                            ast.functions[1]),
                math_analyze(ast, eng.function_costs, eng.math_cache))

parsed_code(code, name_hint, raises, eng, parsed) ==
    IF parsed.raised # <<>> THEN exception("parse", parsed.raised[1], eng)
    ELSE pipeline(code, name_hint, raises, eng, parsed.ast)

\* The try block of process_code.  raises names the stage in which an
\* exception escapes ("" when every stage handles the input); raised is the
\* str() of the exception that left the block, stage where it was raised
\* and eng the engines afterwards.
try_process_code(code, name_hint, raises, eng) ==
    parsed_code(code, name_hint, raises, eng, parse_code(code))

\* Whether the stage named by raises is one this input reaches and in which
\* code runs that can raise: the classifier computes only on a cache miss,
\* and the tree is built only for a function reported recursive.
reaches(raises, eng, parsed) ==
    /\ parsed.raised = <<>>
    /\ parsed.ast.functions # <<>>
    /\ raises \in Stages
    /\ raises = "classify" =>
           generate_function_key(parsed.ast.functions[1])
               \notin DOMAIN eng.analysis_cache
    /\ raises = "tree" =>
           analyze_recursive_algorithm(
               eng.analysis_cache,
               parsed.ast.functions[1]).result.has_recursion

CanRaise(code, raises, eng) ==
    raises = "" \/ reaches(raises, eng, parse_code(code))

\* process_code: the result returned and the engines afterwards.
returned(code, name_hint, run) ==
    [result |-> IF run.raised = <<>> THEN run.result
                ELSE error_result(name_hint, code, run.raised[1]),
     stage |-> run.stage,
     eng |-> run.eng]

process_code(code, name_hint, raises, eng) ==
    returned(code, name_hint, try_process_code(code, name_hint, raises, eng))

\* process_file on a file system in which files maps each path to the text
\* stored there: the result returned, whether it came from _global_cache,
\* and the cache and the engines afterwards.  The path is its own basename.
cached_result(file_path, global_cache, call) ==
    [result |-> call.result, hit |-> FALSE,
     global_cache |-> (file_path :> call.result) @@ global_cache,
     eng |-> call.eng]

process_file(file_path, files, global_cache, eng) ==
    IF file_path \in DOMAIN global_cache
    THEN [result |-> global_cache[file_path], hit |-> TRUE,
          global_cache |-> global_cache, eng |-> eng]
    ELSE IF file_path \notin DOMAIN files
    THEN [result |-> AnalysisResult(file_path, "Error IO", "", <<>>,
                         [error |-> <<"[Errno 2] No such file or directory">>]),
          hit |-> FALSE, global_cache |-> global_cache, eng |-> eng]
    ELSE cached_result(file_path, global_cache,
                       process_code(files[file_path], file_path, "", eng))

(***************************************************************************)
(* Base complexity analyzer (src/analyzer/advanced_complexity.py)          *)
(***************************************************************************)
\* The dataclass with its __post_init__; theta = None is the empty sequence.
ComplexityResult(big_o, omega) ==
    [big_o |-> big_o, omega |-> omega,
     theta |-> IF big_o = omega THEN <<big_o>> ELSE <<>>]

Constant == ComplexityResult(<<"1">>, <<"1">>)

complexity_weight(comp) ==
    IF Contains(comp, <<"^">>) /\ PowerText(comp) # <<>>
    THEN 2 + StrToInt(PowerText(comp))
    ELSE CASE comp = <<"1">> -> 0
           [] comp = Str_log_n -> 1
           [] comp = <<"n">> -> 2
           [] comp = <<"n", " ">> \o Str_log_n -> 3
           [] comp = <<"2", "^", "n">> -> 6
           [] comp = <<"n", "!">> -> 7
           [] OTHER -> 2

\* sorted(...) is stable: the last of the heaviest, the first of the lightest.
max_complexity(complexities) ==
    LET weights == { complexity_weight(complexities[i]) :
                       i \in 1..Len(complexities) }
    IN  complexities[MaxOf({ i \in 1..Len(complexities) :
            complexity_weight(complexities[i]) = MaxOf(weights) })]

min_complexity(complexities) ==
    LET weights == { complexity_weight(complexities[i]) :
                       i \in 1..Len(complexities) }
    IN  complexities[MinOf({ i \in 1..Len(complexities) :
            complexity_weight(complexities[i]) = MinOf(weights) })]

combine_sequential(results) ==
    IF results = <<>> THEN Constant
    ELSE ComplexityResult(
             max_complexity([i \in 1..Len(results) |-> results[i].big_o]),
             max_complexity([i \in 1..Len(results) |-> results[i].omega]))

combine_parallel(results) ==
    IF results = <<>> THEN Constant
    ELSE ComplexityResult(
             max_complexity([i \in 1..Len(results) |-> results[i].big_o]),
             min_complexity([i \in 1..Len(results) |-> results[i].omega]))

\* scan_node: the calls of func_name under a node, through every attribute
\* that holds a node or a list of nodes.
RECURSIVE scan_node(_, _)
scan_node(node, func_name) ==
    LET RECURSIVE scan_list(_)
        scan_list(items) ==
            IF items = <<>> THEN <<>>
            ELSE scan_node(Head(items), func_name) \o scan_list(Tail(items))
    IN  (IF node.k = "Call" /\ node.name = func_name THEN <<node>> ELSE <<>>)
        \o CASE node.k \in {"Assignment", "Return"} ->
                    scan_node(node.expr, func_name)
             [] node.k = "Call" -> scan_list(node.args)
             [] node.k \in {"BinOp", "Condition"} ->
                    scan_node(node.left, func_name)
                    \o scan_node(node.right, func_name)
             [] node.k = "For" ->
                    scan_node(node.start, func_name)
                    \o scan_node(node.end, func_name) \o scan_list(node.body)
             [] node.k = "While" ->
                    scan_node(node.condition, func_name) \o scan_list(node.body)
             [] node.k = "Repeat" ->
                    scan_list(node.body) \o scan_node(node.condition, func_name)
             [] node.k = "If" ->
                    scan_node(node.condition, func_name)
                    \o scan_list(node.then_body) \o scan_list(node.else_body)
             [] node.k = "ArrayAccess" -> scan_node(node.index, func_name)
             [] OTHER -> <<>>

classify_recursion_pattern(num_calls) ==
    CASE num_calls = 0 -> "none"
      [] num_calls = 1 -> "linear"
      [] num_calls = 2 -> "binary"
      [] OTHER -> "multiple"

scan_function_for_recursion(func, recursive_calls) ==
    LET calls == UNION { {<<i, j>> : j \in 1..Len(scan_node(func.body[i], func.name))} :
                          i \in 1..Len(func.body) }
        count == Cardinality(calls)
    IN  IF count = 0 THEN recursive_calls
        ELSE (func.name :> [pattern |-> classify_recursion_pattern(count),
                            count |-> count]) @@ recursive_calls

RECURSIVE scan_functions(_, _)
scan_functions(functions, recursive_calls) ==
    IF functions = <<>> THEN recursive_calls
    ELSE scan_functions(Tail(functions),
             scan_function_for_recursion(Head(functions), recursive_calls))

detect_recursive_functions(node, recursive_calls) ==
    CASE node.k = "Program" -> scan_functions(node.functions, recursive_calls)
      [] node.k = "Function" -> scan_function_for_recursion(node, recursive_calls)
      [] OTHER -> recursive_calls

\* _analyze_recursion and _analyze_recursive_function give the same result.
analyze_recursion(name, recursive_calls) ==
    LET pattern_info == recursive_calls[name]
        power == IntToStr(pattern_info.count) \o <<"^", "n">>
    IN  CASE pattern_info.pattern = "linear" ->
                 ComplexityResult(<<"n">>, <<"n">>)
          [] pattern_info.pattern = "binary" ->
                 ComplexityResult(<<"2", "^", "n">>, <<"2", "^", "n">>)
          [] pattern_info.pattern = "multiple" ->
                 ComplexityResult(power, power)
          [] OTHER -> ComplexityResult(<<"n">>, <<"n">>)

\* _multiply_expressions with the factor "n" of the loops.
multiply_expressions(complexity) ==
    IF complexity = <<"1">> THEN <<"n">>
    ELSE IF complexity = <<"n">> THEN <<"n", "^", "2">>
    ELSE IF Contains(complexity, <<"^">>) /\ PowerText(complexity) # <<>>
    THEN <<"n", "^">> \o IntToStr(StrToInt(PowerText(complexity)) + 1)
    ELSE <<"n", "*">> \o complexity

multiply_complexity(complexity) ==
    ComplexityResult(multiply_expressions(complexity.big_o),
                     multiply_expressions(complexity.omega))

\* _analyze_if on the results of the two branches.
analyze_if(node, then_result, else_result) ==
    IF node.else_body # <<>>
    THEN ComplexityResult(
             max_complexity(<<then_result.big_o, else_result.big_o>>),
             min_complexity(<<then_result.omega, else_result.omega>>))
    ELSE ComplexityResult(then_result.big_o, <<"1">>)

RECURSIVE analyze_node(_, _)
analyze_node(node, recursive_calls) ==
    LET each(items) ==
            [i \in 1..Len(items) |-> analyze_node(items[i], recursive_calls)]
    IN  CASE node.k = "Program" ->
                 IF node.functions = <<>> THEN Constant
                 ELSE combine_parallel(each(node.functions))
          [] node.k = "Function" ->
                 IF node.body = <<>> THEN Constant
                 ELSE IF node.name \in DOMAIN recursive_calls
                 THEN analyze_recursion(node.name, recursive_calls)
                 ELSE combine_sequential(each(node.body))
          [] node.k \in {"Assignment", "Return"} ->
                 analyze_node(node.expr, recursive_calls)
          [] node.k = "Call" ->
                 IF node.name \in DOMAIN recursive_calls
                 THEN analyze_recursion(node.name, recursive_calls)
                 ELSE combine_sequential(
                          <<combine_sequential(each(node.args)), Constant>>)
          [] node.k \in {"BinOp", "Condition"} ->
                 combine_sequential(
                     <<analyze_node(node.left, recursive_calls),
                       analyze_node(node.right, recursive_calls), Constant>>)
          [] node.k = "For" ->
                 multiply_complexity(combine_sequential(each(node.body)))
          [] node.k = "While" ->
                 ComplexityResult(
                     multiply_complexity(
                         combine_sequential(each(node.body))).big_o,
                     <<"1">>)
          [] node.k = "Repeat" ->
                 ComplexityResult(
                     multiply_complexity(
                         combine_sequential(each(node.body))).big_o,
                     combine_sequential(each(node.body)).omega)
          [] node.k = "If" ->
                 analyze_if(node, combine_sequential(each(node.then_body)),
                            combine_sequential(each(node.else_body)))
          [] node.k = "ArrayAccess" ->
                 combine_sequential(
                     <<analyze_node(node.index, recursive_calls), Constant>>)
          [] OTHER -> Constant

\* AdvancedComplexityAnalyzer.analyze: the result and recursive_calls
\* afterwards.
base_analyze(node, recursive_calls) ==
    LET detected == detect_recursive_functions(node, recursive_calls)
    IN  [result |-> analyze_node(node, detected), recursive_calls |-> detected]

(***************************************************************************)
(* Recurrence tree totals (src/analyzer/recurrence_tree_builder.py)        *)
(***************************************************************************)
RemoveSpaces(s) == SelectSeq(s, LAMBDA c : c # " ")

\* The three regular expressions of _parse_recurrence, tried in their order
\* on the relation without spaces; type "none" when none matches.
parse_recurrence(relation) ==
    LET s == RemoveSpaces(relation)
        head == <<"T", "(", "n", ")", "=">>
        coef_end == DigitRunEnd(s, 6)
        coef == SubSeq(s, 6, coef_end - 1)
        op_at == coef_end + 3
        num_end == DigitRunEnd(s, op_at + 1)
        work_at == num_end + 4
        closers == { j \in (work_at + 1)..Len(s) : s[j] = ")" }
        shaped(op) ==
            /\ StartsAt(s, head, 1)
            /\ StartsAt(s, <<"T", "(", "n", op>>, coef_end)
            /\ num_end > op_at + 1
            /\ StartsAt(s, <<")", "+", "O", "(">>, num_end)
            /\ closers # {}
        number == StrToInt(SubSeq(s, op_at + 1, num_end - 1))
        work == SubSeq(s, work_at, MinOf(closers) - 1)
    IN  IF shaped("/") /\ coef # <<>>
        THEN [type |-> "divide_conquer", branches |-> StrToInt(coef),
              division_factor |-> number, work |-> work]
        ELSE IF shaped("-") /\ coef = <<>>
        THEN [type |-> "linear", decrement |-> number, work |-> work]
        ELSE IF shaped("-") /\ coef # <<>>
        THEN [type |-> "exponential", branches |-> StrToInt(coef),
              decrement |-> number, work |-> work]
        ELSE [type |-> "none"]

\* f"{math.log(branches, division_factor):.2f}" where branches is a power of
\* the division factor, which is at least 2.
LogText(branches, division_factor) ==
    LET j == CHOOSE e \in 0..8 : Pow(division_factor, e) = branches
    IN  IntToStr(j) \o <<".", "0", "0">>

\* build_tree(relation, max_levels).get_total_work()
tree_total_work(relation) ==
    LET pattern_info == parse_recurrence(relation)
        O(text) == <<"O", "(">> \o text \o <<")">>
    IN  CASE pattern_info.type = "divide_conquer" ->
                 IF pattern_info.work = <<"1">>
                 THEN O(<<"n", "^">> \o LogText(pattern_info.branches,
                                                pattern_info.division_factor))
                 ELSE O(<<"n", " ">> \o Str_log_n)
          [] pattern_info.type = "exponential" ->
                 O(IntToStr(pattern_info.branches) \o <<"^", "n">>)
          [] OTHER -> Str_On

\* RecurrenceTreeNode(problem_size, work_done, level, cost_at_level) when
\* the class counter holds heap.counter: __post_init__ gives the node an
\* empty list of children and the next node_id.  A heap holds the node
\* objects by node_id.
RecurrenceTreeNode(heap, problem_size, work_done, level) ==
    [counter |-> heap.counter + 1,
     nodes |-> heap.nodes @@
               ((heap.counter + 1) :>
                   [node_id |-> heap.counter + 1,
                    problem_size |-> problem_size,
                    work_done |-> work_done,
                    level |-> level,
                    children |-> <<>>,
                    cost_at_level |-> work_done])]

\* parent.add_child(child)
add_child(heap, parent, child) ==
    [heap EXCEPT !.nodes[parent].children = Append(@, child)]

BigO(text) == <<"O", "(">> \o text \o <<")">>

\* The problem size _build_dc_level gives a child.
dc_child_size(parent_size, division_factor, current_level) ==
    IF parent_size = <<"n">>
    THEN IF current_level = 1
         THEN <<"n", "/">> \o IntToStr(division_factor)
         ELSE <<"n", "/">> \o IntToStr(Pow(division_factor, current_level))
    ELSE parent_size \o <<"/">> \o IntToStr(division_factor)

RECURSIVE build_dc_level(_, _, _, _, _, _, _)
RECURSIVE dc_children(_, _, _, _, _, _, _, _)
\* The loop of _build_dc_level from its i-th round on.
dc_children(heap, parent, branches, division_factor, work, current_level, max_levels, i) ==
    IF i >= branches THEN heap
    ELSE dc_children(
             build_dc_level(
                 add_child(
                     RecurrenceTreeNode(
                         heap,
                         dc_child_size(heap.nodes[parent].problem_size,
                                       division_factor, current_level),
                         BigO(work), current_level),
                     parent, heap.counter + 1),
                 heap.counter + 1, branches, division_factor, work,
                 current_level + 1, max_levels),
             parent, branches, division_factor, work, current_level,
             max_levels, i + 1)

build_dc_level(heap, parent, branches, division_factor, work, current_level, max_levels) ==
    IF current_level >= max_levels THEN heap
    ELSE dc_children(heap, parent, branches, division_factor, work,
                     current_level, max_levels, 0)

RECURSIVE build_exp_level(_, _, _, _, _, _)
RECURSIVE exp_children(_, _, _, _, _, _, _)
\* The loop of _build_exp_level from its i-th round on.
exp_children(heap, parent, branches, work, current_level, max_levels, i) ==
    IF i >= branches THEN heap
    ELSE exp_children(
             build_exp_level(
                 add_child(
                     RecurrenceTreeNode(
                         heap, <<"n", "-">> \o IntToStr(current_level),
                         BigO(work), current_level),
                     parent, heap.counter + 1),
                 heap.counter + 1, branches, work, current_level + 1,
                 max_levels),
             parent, branches, work, current_level, max_levels, i + 1)

build_exp_level(heap, parent, branches, work, current_level, max_levels) ==
    IF current_level >= max_levels THEN heap
    ELSE exp_children(heap, parent, branches, work, current_level,
                      max_levels, 0)

\* The loop of _build_linear_tree from the given level on; current is the
\* node the next child is added to.
RECURSIVE linear_chain(_, _, _, _)
linear_chain(heap, current, level, max_levels) ==
    IF level >= max_levels THEN heap
    ELSE linear_chain(
             add_child(
                 RecurrenceTreeNode(heap, <<"n", "-">> \o IntToStr(level),
                                    Str_O1, level),
                 current, heap.counter + 1),
             heap.counter + 1, level + 1, max_levels)

Times == "×"

\* The level_costs list of a divide and conquer tree.
dc_level_costs(branches, division_factor, work_per_level, tree_height) ==
    [ i \in 1..tree_height |->
        LET level == i - 1
            nodes_at_level == Pow(branches, level)
            head == IntToStr(nodes_at_level) \o <<" ", Times, " ">>
        IN  IF work_per_level = <<"n">>
            THEN head
                 \o BigO(<<"n", "/">> \o IntToStr(Pow(division_factor, level)))
                 \o <<" ", "=", " ">> \o Str_On
            ELSE IF work_per_level = <<"1">>
            THEN head \o Str_O1 \o <<" ", "=", " ">>
                 \o BigO(IntToStr(nodes_at_level))
            ELSE head \o BigO(work_per_level) ]

\* The level_costs list of an exponential tree.
exp_level_costs(branches, work, max_levels) ==
    [ i \in 1..max_levels |->
        IntToStr(Pow(branches, i - 1)) \o <<" ", Times, " ">> \o BigO(work)
        \o <<" ", "=", " ">> \o BigO(IntToStr(Pow(branches, i - 1))) ]

RecurrenceTree(heap, root, total_levels, recurrence_relation, pattern_type, total_complexity, level_costs) ==
    [counter |-> heap.counter,
     tree |-> [root |-> root,
               nodes |-> heap.nodes,
               total_levels |-> total_levels,
               recurrence_relation |-> recurrence_relation,
               pattern_type |-> pattern_type,
               total_complexity |-> total_complexity,
               level_costs |-> level_costs]]

\* A heap without nodes when the class counter holds id_counter.
EmptyHeap(counter) == [counter |-> counter, nodes |-> <<>>]

\* The root every builder starts from.
RootNode(counter, work_done) ==
    RecurrenceTreeNode(EmptyHeap(counter), <<"n">>, work_done, 0)

build_divide_conquer_tree(counter, relation, pattern_info, max_levels) ==
    RecurrenceTree(
        build_dc_level(RootNode(counter, BigO(pattern_info.work)),
                       counter + 1, pattern_info.branches,
                       pattern_info.division_factor, pattern_info.work, 1,
                       max_levels),
        counter + 1, max_levels, relation, "divide_conquer",
        tree_total_work(relation),
        dc_level_costs(pattern_info.branches, pattern_info.division_factor,
                       pattern_info.work, max_levels))

build_linear_tree(counter, max_levels) ==
    RecurrenceTree(
        linear_chain(RootNode(counter, Str_O1), counter + 1, 1, max_levels),
        counter + 1, max_levels, Str_Tn_eq \o Str_T_n_1 \o Str_plus \o Str_O1,
        "linear", Str_On, [ i \in 1..max_levels |-> Str_O1 ])

build_exponential_tree(counter, relation, pattern_info, max_levels) ==
    RecurrenceTree(
        build_exp_level(RootNode(counter, BigO(pattern_info.work)),
                        counter + 1, pattern_info.branches,
                        pattern_info.work, 1, max_levels),
        counter + 1, max_levels, relation, "exponential",
        BigO(IntToStr(pattern_info.branches) \o <<"^", "n">>),
        exp_level_costs(pattern_info.branches, pattern_info.work, max_levels))

\* The tree build_tree builds on a cache miss when the class counter holds
\* counter, and the counter afterwards.
build_new_tree(counter, relation, max_levels) ==
    LET pattern_info == parse_recurrence(relation)
    IN  IF pattern_info.type = "divide_conquer"
        THEN build_divide_conquer_tree(counter, relation, pattern_info,
                                       max_levels)
        ELSE IF pattern_info.type = "exponential"
        THEN build_exponential_tree(counter, relation, pattern_info,
                                    max_levels)
        ELSE build_linear_tree(counter, max_levels)

\* f"{recurrence_relation}_{max_levels}"
tree_cache_key(relation, max_levels) ==
    relation \o <<"_">> \o IntToStr(max_levels)

(***************************************************************************)
(* Dynamic programming analyzer (src/analyzer/dp_analyzer.py)              *)
(***************************************************************************)
\* A node object: the node and the identity that str(node) prints, since
\* the node classes define no __str__.
Object(id, node) == [id |-> id, node |-> node]

generate_node_key(obj) ==
    [type |-> obj.node.k,
     content |-> obj.id,
     name |-> IF hasattr(obj.node, "name") THEN <<obj.node.name>> ELSE <<>>,
     body_length |-> IF hasattr(obj.node, "body") /\ obj.node.body # <<>>
                     THEN <<Len(obj.node.body)>> ELSE <<>>]

NoAttribute ==
    "'AdvancedComplexityAnalyzer' object has no attribute 'analyze_complexity'"

\* analyze_with_dp(node) on an analyzer whose caches are given: what it
\* raises, the key and the caches afterwards.  The result returned is the
\* object stored under the key.
dp_state(raised, hit, node_key, cache, rec_cache, rec_calls) ==
    [raised |-> raised, hit |-> hit, key |-> node_key, cache |-> cache,
     rec_cache |-> rec_cache, recursive_calls |-> rec_calls]

\* self.analysis_cache[node_key] = result, result from the base analyzer.
store_result(node_key, cache, rec_cache, base) ==
    dp_state(<<>>, FALSE, node_key, (node_key :> base.result) @@ cache,
             rec_cache, base.recursive_calls)

\* The branch of analyze_with_dp for a Function, klass being the call of
\* the classifier.
analyze_function_with_dp(obj, node_key, cache, rec_calls, klass) ==
    IF klass.result.has_recursion
    THEN dp_state(<<NoAttribute>>, FALSE, node_key, cache, klass.cache,
                  rec_calls)
    ELSE store_result(node_key, cache, klass.cache,
                      base_analyze(obj.node, rec_calls))

analyze_with_dp(obj, cache, rec_cache, rec_calls) ==
    LET node_key == generate_node_key(obj)
    IN  IF node_key \in DOMAIN cache
        THEN dp_state(<<>>, TRUE, node_key, cache, rec_cache, rec_calls)
        ELSE IF obj.node.k = "Function"
        THEN analyze_function_with_dp(
                 obj, node_key, cache, rec_calls,
                 analyze_recursive_algorithm(rec_cache, obj.node))
        ELSE store_result(node_key, cache, rec_cache,
                          base_analyze(obj.node, rec_calls))

\* The loop of analyze_with_recurrence_tree over the functions of a Program:
\* the relation of the first recursive function, and the classifier cache.
RECURSIVE first_recursive_function(_, _)
recursive_or_next(functions, klass) ==
    IF /\ klass.result.has_recursion
       /\ klass.result.recurrence_relation # <<>>
    THEN [relation |-> klass.result.recurrence_relation,
          rec_cache |-> klass.cache]
    ELSE first_recursive_function(Tail(functions), klass.cache)

first_recursive_function(functions, rec_cache) ==
    IF functions = <<>> THEN [relation |-> <<>>, rec_cache |-> rec_cache]
    ELSE recursive_or_next(functions,
                           analyze_recursive_algorithm(rec_cache,
                                                       Head(functions)))

\* analyze_with_recurrence_tree(node): tree is the total work of the tree
\* returned, the empty text for no tree.
function_relation(klass) ==
    [relation |-> IF klass.result.has_recursion
                  THEN klass.result.recurrence_relation ELSE <<>>,
     rec_cache |-> klass.cache]

\* The relation the tree is built from, the empty text when no tree is
\* built, and the classifier cache after looking for it.
found_relation(obj, rec_cache) ==
    CASE obj.node.k = "Function" ->
             function_relation(analyze_recursive_algorithm(rec_cache,
                                                           obj.node))
      [] obj.node.k = "Program" ->
             first_recursive_function(obj.node.functions, rec_cache)
      [] OTHER -> [relation |-> <<>>, rec_cache |-> rec_cache]

\* complexity_result.big_o = tree_complexity on the object analyze_with_dp
\* returned, which is the one the cache holds.
update_with_tree(dp, found, tree_complexity) ==
    IF found.relation = <<>>
    THEN [dp EXCEPT !.rec_cache = found.rec_cache]
         @@ [tree |-> <<>>, relation |-> <<>>]
    ELSE [dp EXCEPT
             !.rec_cache = found.rec_cache,
             !.cache = IF tree_complexity # <<>> /\ tree_complexity # Str_O1
                       THEN [@ EXCEPT ![dp.key].big_o = tree_complexity]
                       ELSE @]
         @@ [tree |-> tree_complexity, relation |-> found.relation]

build_tree(dp, found) ==
    update_with_tree(dp, found, tree_total_work(found.relation))

after_dp(obj, dp) ==
    IF dp.raised # <<>> THEN dp @@ [tree |-> <<>>, relation |-> <<>>]
    ELSE build_tree(dp, found_relation(obj, dp.rec_cache))

analyze_with_recurrence_tree(obj, cache, rec_cache, rec_calls) ==
    after_dp(obj, analyze_with_dp(obj, cache, rec_cache, rec_calls))

(***************************************************************************)
(* Case analyzer (src/analyzer/case_analyzer.py)                           *)
(***************************************************************************)
\* The traversal every detector of the case analyzer repeats: the public
\* attributes of a node in the order of dir(node) that are nodes or lists
\* of nodes.  Names, operators and parameter lists are strings and are
\* skipped, as is the None of a missing else branch.
attr_nodes(node) ==
    CASE node.k = "Program" -> node.functions
      [] node.k = "Function" -> node.body
      [] node.k = "Assignment" -> <<node.expr>>
      [] node.k = "For" -> node.body \o <<node.end, node.start>>
      [] node.k \in {"While", "Repeat"} -> node.body \o <<node.condition>>
      [] node.k = "If" ->
             <<node.condition>> \o node.else_body \o node.then_body
      [] node.k = "Return" -> <<node.expr>>
      [] node.k = "Call" -> node.args
      [] node.k \in {"BinOp", "Condition"} -> <<node.left, node.right>>
      [] node.k = "ArrayAccess" -> <<node.index>>
      [] OTHER -> <<>>

RECURSIVE check_recursive_calls(_, _)
check_recursive_calls(node, func_name) ==
    \/ node.k = "Call" /\ node.name = func_name
    \/ \E i \in 1..Len(attr_nodes(node)) :
           check_recursive_calls(attr_nodes(node)[i], func_name)

\* _has_recursion, on a Function or on a Program.
case_has_recursion(node) ==
    IF node.k = "Function" THEN check_recursive_calls(node, node.name)
    ELSE /\ hasattr(node, "functions")
         /\ \E i \in 1..Len(node.functions) :
                check_recursive_calls(node.functions[i],
                                      node.functions[i].name)

\* For and While are the loops this module knows; it does not import Repeat.
RECURSIVE has_loops(_)
has_loops(node) ==
    \/ node.k \in {"For", "While"}
    \/ \E i \in 1..Len(attr_nodes(node)) : has_loops(attr_nodes(node)[i])

\* The outcome of a detector that may raise: "True", "False" or "Raise".
\* _has_return_in_if reads if_node.then_block and if_node.else_block.
has_return_in_if(if_node) ==
    IF ~hasattr(if_node, "then_block") \/ ~hasattr(if_node, "else_block")
    THEN "Raise"
    ELSE IF \/ \E i \in 1..Len(if_node.then_block) :
                   if_node.then_block[i].k = "Return"
            \/ \E i \in 1..Len(if_node.else_block) :
                   if_node.else_block[i].k = "Return"
    THEN "True" ELSE "False"

\* The loop over the statements of a loop body: the first Return, or the
\* first If in which a Return is found or the search raises, decides.
RECURSIVE return_in_loop_body(_)
return_in_loop_body(body) ==
    IF body = <<>> THEN "False"
    ELSE IF Head(body).k = "Return" THEN "True"
    ELSE IF Head(body).k = "If" /\ has_return_in_if(Head(body)) # "False"
    THEN has_return_in_if(Head(body))
    ELSE return_in_loop_body(Tail(body))

RECURSIVE has_early_return_in_loop(_)
RECURSIVE early_return_in_any(_)
has_early_return_in_loop(node) ==
    IF /\ node.k \in {"For", "While"}
       /\ return_in_loop_body(node.body) # "False"
    THEN return_in_loop_body(node.body)
    ELSE early_return_in_any(attr_nodes(node))

early_return_in_any(nodes) ==
    IF nodes = <<>> THEN "False"
    ELSE IF has_early_return_in_loop(Head(nodes)) # "False"
    THEN has_early_return_in_loop(Head(nodes))
    ELSE early_return_in_any(Tail(nodes))

RECURSIVE count_nested_loops(_, _)
count_nested_loops(node, depth) ==
    IF node.k \in {"For", "While"}
    THEN MaxOf({depth + 1}
               \cup { count_nested_loops(node.body[i], depth + 1) :
                        i \in 1..Len(node.body) })
    ELSE MaxOf({depth}
               \cup { count_nested_loops(attr_nodes(node)[i], depth) :
                        i \in 1..Len(attr_nodes(node)) })

RECURSIVE count_recursive_calls(_, _)
RECURSIVE count_calls_in(_, _)
count_recursive_calls(node, func_name) ==
    (IF node.k = "Call" /\ node.name = func_name THEN 1 ELSE 0)
    + count_calls_in(attr_nodes(node), func_name)

count_calls_in(nodes, func_name) ==
    IF nodes = <<>> THEN 0
    ELSE count_recursive_calls(Head(nodes), func_name)
         + count_calls_in(Tail(nodes), func_name)

has_divide_conquer_pattern(ast) ==
    LET funcs == IF hasattr(ast, "functions") THEN ast.functions
                 ELSE IF ast.k = "Function" THEN <<ast>> ELSE <<>>
    IN  \E i \in 1..Len(funcs) :
            count_recursive_calls(funcs[i], funcs[i].name) >= 2

\* The division is looked for in the attribute value of an Assignment.
RECURSIVE check_binary_division(_)
check_binary_division(node) ==
    \/ /\ node.k = "Assignment"
       /\ hasattr(node, "value")
       /\ node.value.k = "BinOp"
       /\ node.value.op = "/"
    \/ \E i \in 1..Len(attr_nodes(node)) :
           check_binary_division(attr_nodes(node)[i])

has_binary_search_pattern(ast) ==
    /\ hasattr(ast, "functions")
    /\ \E i \in 1..Len(ast.functions) :
           check_binary_division(ast.functions[i])

\* True when one Call under the node has an argument x - 1 and an argument
\* x - 2: the decrements are collected per node.
RECURSIVE has_fibonacci_decrement_pattern(_)
has_fibonacci_decrement_pattern(node) ==
    LET decrements ==
            IF node.k # "Call" THEN {}
            ELSE { node.args[i].right.value :
                     i \in { j \in 1..Len(node.args) :
                               /\ node.args[j].k = "BinOp"
                               /\ node.args[j].op = "-"
                               /\ node.args[j].right.k = "Number" } }
    IN  \/ \E i \in 1..Len(attr_nodes(node)) :
               has_fibonacci_decrement_pattern(attr_nodes(node)[i])
        \/ 1 \in decrements /\ 2 \in decrements

\* The function names of the inputs whose lower-case form contains 'fib'.
FibNames == {"fib", "fibonacci"}

is_fibonacci_pattern(ast) ==
    /\ hasattr(ast, "functions")
    /\ \E i \in 1..Len(ast.functions) :
           /\ count_recursive_calls(ast.functions[i],
                                    ast.functions[i].name) = 2
           /\ \/ ast.functions[i].name \in FibNames
              \/ has_fibonacci_decrement_pattern(ast.functions[i])

\* _detect_algorithm_type: the type, or "Raise" when the search for an early
\* return raises.
detect_algorithm_type(ast) ==
    IF has_binary_search_pattern(ast) THEN "binary_search"
    ELSE IF is_fibonacci_pattern(ast) THEN "fibonacci"
    ELSE IF has_divide_conquer_pattern(ast) THEN "divide_conquer"
    ELSE IF case_has_recursion(ast) THEN "recursive"
    ELSE IF ~has_loops(ast) THEN "constant"
    ELSE IF count_nested_loops(ast, 0) >= 2 THEN "nested_loops"
    ELSE IF has_early_return_in_loop(ast) = "Raise" THEN "Raise"
    ELSE IF has_early_return_in_loop(ast) = "True" THEN "linear_search"
    ELSE "linear_processing"

Str_Theta_1 == <<"Θ", "(", "1", ")">>
Str_Theta_n == <<"Θ", "(", "n", ")">>
Str_Theta_log_n == <<"Θ", "(">> \o Str_log_n \o <<")">>
Str_Theta_n_log_n == <<"Θ", "(", "n", " ">> \o Str_log_n \o <<")">>
\* The superscript n (U+207F) and the sign "almost equal to" (U+2248) of the
\* catalogue's texts, written as one character each.
SuperscriptN == "U+207F"
AlmostEqual == "U+2248"
Str_Theta_n_sq == <<"Θ", "(", "n", "²", ")">>
Str_Theta_2_n == <<"Θ", "(", "2", SuperscriptN, ")">>
Str_Theta_2_n_twice == Str_Theta_2_n \o <<" ", AlmostEqual, " ">> \o Str_Theta_2_n
Str_Theta_half_n == <<"Θ", "(", "n", "/", "2", ")", " ", "=", " ">> \o Str_Theta_n

\* The dataclass without its narrative fields (scenario, ejemplo,
\* explanation), which are fixed texts of the catalogue.
CaseAnalysis(case_type, complexity) ==
    [case_type |-> case_type, complexity |-> complexity]

\* Python's `comp or default`.
Or(comp, default) == IF comp # <<>> THEN comp ELSE default

\* The function names of the inputs that contain 'quick' or 'qsort'.
QuickNames == {"quick_sort", "qsort"}

count_active_recursive_calls(ast) ==
    IF hasattr(ast, "functions") /\ ast.functions # <<>>
    THEN count_recursive_calls(ast.functions[1], ast.functions[1].name)
    ELSE 0

validate_and_refine_type(detected_type, recurrence, complexity, ast) ==
    LET rec == RemoveSpaces(recurrence)
        low == Lower(complexity)
    IN  IF /\ Contains(rec, <<"t", "(", "n", "-", "1", ")">>)
           /\ Contains(rec, <<"t", "(", "n", "-", "2", ")">>)
        THEN "fibonacci"
        ELSE IF /\ Contains(rec, <<"t", "(", "n", "/", "2", ")">>)
                /\ Contains(low, <<"l", "o", "g">>)
                /\ ~Contains(low, <<"n", "l", "o", "g">>)
                /\ ~Contains(low, <<"2", "^">>)
        THEN "binary_search"
        ELSE IF has_binary_search_pattern(ast) THEN "binary_search"
        ELSE IF \/ Contains(low, <<"n", "l", "o", "g">>)
                \/ Contains(low, <<"n", "*", "l", "o", "g">>)
        THEN "divide_conquer"
        ELSE IF \/ Contains(low, <<"2", "^">>)
                \/ Contains(low, <<"e", "x", "p", "(">>)
                \/ Contains(low, <<"2">>)
        THEN (IF count_active_recursive_calls(ast) >= 2 THEN "fibonacci"
              ELSE "recursive")
        ELSE detected_type

analyze_best_case(ast, algorithm_type, complexity) ==
    CaseAnalysis("best",
        CASE algorithm_type = "divide_conquer" -> Str_Theta_n_log_n
          [] algorithm_type = "nested_loops" -> Or(complexity, Str_Theta_n_sq)
          [] algorithm_type = "fibonacci" -> Or(complexity, Str_Theta_2_n)
          [] algorithm_type \in {"binary_search", "prime_test",
                                 "linear_search", "constant"} -> Str_Theta_1
          [] algorithm_type \in {"recursive", "linear_processing"} ->
                 Or(complexity, Str_Theta_n)
          [] OTHER -> Or(complexity, Str_Theta_1))

\* A worst case that is the fallback of the catalogue for every type.
analyze_worst_case_by_default(ast, algorithm_type, complexity) ==
    CaseAnalysis("worst", Or(complexity, Str_Theta_n))

analyze_worst_case(ast, algorithm_type, complexity) ==
    LET is_quick == /\ hasattr(ast, "functions")
                    /\ ast.functions # <<>>
                    /\ ast.functions[1].name \in QuickNames
    IN  CaseAnalysis("worst",
            CASE algorithm_type = "nested_loops" ->
                     Or(complexity, Str_Theta_n_sq)
              [] algorithm_type = "divide_conquer" ->
                     IF is_quick THEN Str_Theta_n_sq
                     ELSE Or(complexity, Str_Theta_n_log_n)
              [] algorithm_type = "fibonacci" -> Str_Theta_2_n_twice
              [] algorithm_type = "binary_search" -> Str_Theta_log_n
              [] algorithm_type \in {"prime_test", "linear_search"} ->
                     Str_Theta_n
              [] algorithm_type = "constant" -> Str_Theta_1
              [] OTHER -> Or(complexity, Str_Theta_n))

analyze_average_case(ast, algorithm_type, complexity) ==
    CaseAnalysis("average",
        CASE algorithm_type = "fibonacci" -> Str_Theta_2_n_twice
          [] algorithm_type = "binary_search" -> Str_Theta_log_n
          [] algorithm_type = "prime_test" -> Str_Theta_n
          [] algorithm_type = "divide_conquer" -> Str_Theta_n_log_n
          [] algorithm_type = "nested_loops" -> Or(complexity, Str_Theta_n_sq)
          [] algorithm_type = "linear_search" -> Str_Theta_half_n
          [] algorithm_type = "constant" -> Str_Theta_1
          [] OTHER -> Or(complexity, Str_Theta_n))

\* The three cases built for the type that was resolved.
built_cases(ast, algorithm_type, complexity) ==
    [raised |-> FALSE,
     algorithm_type |-> algorithm_type,
     best |-> analyze_best_case(ast, algorithm_type, complexity),
     worst |-> analyze_worst_case(ast, algorithm_type, complexity),
     average |-> analyze_average_case(ast, algorithm_type, complexity)]

\* The type after detection and refinement; a detection that raises leaves
\* the caller's type.
resolved_type(ast, detected, algorithm_type, recurrence_eq, complexity) ==
    validate_and_refine_type(
        IF detected \notin {"Raise", "unknown"} THEN detected
        ELSE algorithm_type,
        recurrence_eq, complexity, ast)

\* analyze_all_cases: the cases and the type they were built for.  Without
\* a recurrence and a complexity it calls _build_math_based_cases, which the
\* class does not define.
analyze_all_cases(ast, algorithm_type, recurrence_eq, complexity) ==
    IF complexity = <<>> /\ recurrence_eq = <<>>
    THEN [raised |-> TRUE]
    ELSE built_cases(ast,
                     resolved_type(ast, detect_algorithm_type(ast),
                                   algorithm_type, recurrence_eq, complexity),
                     complexity)

(***************************************************************************)
(* State                                                                   *)
(***************************************************************************)
VARIABLES
    fn,              \* the Function node handed to the engines
    out,             \* what the engines returned for fn
    analysis_cache,  \* RecursiveAlgorithmAnalyzer.analysis_cache
    last,            \* the last call made and what it returned
    function_costs,  \* MathematicalAnalyzer.function_costs
    math_cache,      \* analysis_cache of the math engine's own classifier
    results,         \* per source text, the results process_code returned
    files,           \* the file system: path -> text
    global_cache,    \* AnalysisOrchestrator._global_cache
    dp_cache,        \* DynamicProgrammingAnalyzer.analysis_cache
    inserted,        \* per key of dp_cache, the value when it was inserted
    recursive_calls, \* AdvancedComplexityAnalyzer.recursive_calls
    cache_hits,      \* DynamicProgrammingAnalyzer.cache_hits
    cache_misses,    \* DynamicProgrammingAnalyzer.cache_misses
    dp_calls,        \* the analyze_with_dp calls since the last clear_cache
    id_counter,      \* RecurrenceTreeNode._id_counter
    pc,              \* per thread, its position in __post_init__
    loaded,          \* per thread, the counter value it has read
    created,         \* per thread, the node_id of the nodes it created
    built_trees      \* RecurrenceTreeBuilder.built_trees

engineVars == <<fn, out>>

cacheVars == <<analysis_cache, last>>

mathVars == <<function_costs, math_cache, results>>

fileVars == <<files, global_cache>>

dpVars ==
    <<dp_cache, inserted, recursive_calls, cache_hits, cache_misses, dp_calls>>

nodeVars == <<id_counter, pc, loaded, created, built_trees>>

vars == <<engineVars, cacheVars, mathVars, fileVars, dpVars, nodeVars>>

\* The variables the engine harness leaves alone.
restVars == <<cacheVars, mathVars, fileVars, dpVars, nodeVars>>

(***************************************************************************)
(* The engines on functions built statement by statement.                  *)
(* A caller builds a Function node and hands it to a fresh classifier and  *)
(* to the asymptotic engine, as process_code does with functions[0].       *)
(***************************************************************************)
MaxNest == 4
MaxNodes == 5

NoOut == [done |-> FALSE]

NoCalls == [made |-> 0, stored |-> 0]

EmptyFn == Function("f", <<"n">>, <<>>)

LoopCond == Condition(Var("i"), "<", Var("n"))

IfCond == Condition(Var("n"), ">", Number(0))

PlainStmt == Assignment("x", Number(1))

Wrap(kind, body) ==
    CASE kind = "For" -> For("i", Number(1), Var("n"), body)
      [] kind = "While" -> While(LoopCond, body)
      [] kind = "Repeat" -> Repeat(body, LoopCond)
      [] kind = "IfThen" -> If(IfCond, body, <<>>)
      [] kind = "IfElse" -> If(IfCond, <<PlainStmt>>, body)

RECURSIVE NodeCount(_)
NodeCount(node) ==
    LET sum(items) ==
            LET RECURSIVE S(_)
                S(i) == IF i > Len(items) THEN 0
                        ELSE NodeCount(items[i]) + S(i + 1)
            IN  S(1)
    IN  1 + (IF hasattr(node, "body") THEN sum(node.body) ELSE 0)
          + (IF node.k = "If" THEN sum(node.then_body) + sum(node.else_body)
             ELSE 0)

\* The nesting depth of statements of every class (loops and Ifs).
RECURSIVE Nesting(_)
Nesting(node) ==
    LET deepest(items) ==
            MaxOf({0} \cup { Nesting(items[i]) : i \in 1..Len(items) })
    IN  CASE node.k = "Function" -> deepest(node.body)
          [] hasattr(node, "body") -> 1 + deepest(node.body)
          [] node.k = "If" ->
                 1 + MaxOf({deepest(node.then_body), deepest(node.else_body)})
          [] OTHER -> 0

WithinBounds(f) == NodeCount(f) <= MaxNodes + 1 /\ Nesting(f) <= MaxNest

\* Both engines on fn: analyze_recursive_algorithm on an empty cache, then
\* analyze_function_node.
Analyze ==
    /\ out = NoOut
    /\ \E rec_info \in {analyze_recursive_algorithm(<<>>, fn).result} :
       \E heur \in {analyze_function_node(fn, rec_info)} :
          out' = [done |-> TRUE, rec_info |-> rec_info,
                  recurrence |-> heur.recurrence, bound |-> heur.bound]
    /\ UNCHANGED <<fn, restVars>>

AppendPlain ==
    /\ out = NoOut
    /\ LET f == [fn EXCEPT !.body = Append(@, PlainStmt)]
       IN  WithinBounds(f) /\ fn' = f
    /\ UNCHANGED <<out, restVars>>

WrapBody ==
    /\ out = NoOut
    /\ \E kind \in {"For", "While", "Repeat", "IfThen", "IfElse"} :
          LET f == [fn EXCEPT !.body = <<Wrap(kind, @)>>]
          IN  /\ kind \in {"IfThen", "IfElse"} => fn.body # <<>>
              /\ WithinBounds(f)
              /\ fn' = f
    /\ UNCHANGED <<out, restVars>>

WrapLast ==
    /\ out = NoOut
    /\ fn.body # <<>>
    /\ \E kind \in {"For", "While", "Repeat"} :
          LET n == Len(fn.body)
              f == [fn EXCEPT !.body[n] = Wrap(kind, <<@>>)]
          IN  WithinBounds(f) /\ fn' = f
    /\ UNCHANGED <<out, restVars>>

\* The threads that create recurrence-tree nodes.
Threads == {"t1", "t2"}

\* The state after construction: no function built, every dictionary and
\* the file system empty, the node counter at 0.
Init ==
    /\ fn = EmptyFn
    /\ out = NoOut
    /\ analysis_cache = <<>>
    /\ last = <<>>
    /\ function_costs = <<>>
    /\ math_cache = <<>>
    /\ results = [code \in Sources |-> {}]
    /\ files = <<>>
    /\ global_cache = <<>>
    /\ dp_cache = <<>>
    /\ inserted = <<>>
    /\ recursive_calls = <<>>
    /\ cache_hits = 0
    /\ cache_misses = 0
    /\ dp_calls = NoCalls
    /\ id_counter = 0
    /\ built_trees = <<>>
    /\ pc = [t \in Threads |-> "idle"]
    /\ loaded = [t \in Threads |-> 0]
    /\ created = [t \in Threads |-> <<>>]

NextLoops == AppendPlain \/ WrapBody \/ WrapLast \/ Analyze

SpecLoops == Init /\ [][NextLoops]_vars

(***************************************************************************)
(* Claims about iterative functions                                        *)
(***************************************************************************)
\* The maximum nesting depth of For/While/Repeat loops under a node, every
\* loop counted, also through the branches of an If.
RECURSIVE LoopNesting(_)
LoopNesting(node) ==
    LET deepest(items) ==
            MaxOf({0} \cup { LoopNesting(items[i]) : i \in 1..Len(items) })
    IN  CASE node.k \in {"For", "While", "Repeat"} -> 1 + deepest(node.body)
          [] node.k = "Function" -> deepest(node.body)
          [] node.k = "If" ->
                 MaxOf({deepest(node.then_body), deepest(node.else_body)})
          [] OTHER -> 0

\* Whether some loop under the node has no statement in its body.
RECURSIVE HasEmptyLoop(_)
HasEmptyLoop(node) ==
    LET some(items) == \E i \in 1..Len(items) : HasEmptyLoop(items[i])
    IN  \/ node.k \in {"For", "While", "Repeat"} /\ node.body = <<>>
        \/ hasattr(node, "body") /\ some(node.body)
        \/ node.k = "If" /\ (some(node.then_body) \/ some(node.else_body))

\* The text n^d of the claim: 1, n, n^2, n^3, ...
NToThe(d) ==
    CASE d = 0 -> <<"1">>
      [] d = 1 -> <<"n">>
      [] OTHER -> <<"n", "^">> \o IntToStr(d)

\* The right-hand sides c, cn, cn² (or cn^2), cn^d that stand for c·n^d.
CTimesNToThe(d) ==
    CASE d = 0 -> {<<"c">>}
      [] d = 1 -> {<<"c", "n">>}
      [] d = 2 -> {<<"c", "n", "²">>, <<"c", "n", "^", "2">>}
      [] OTHER -> {<<"c", "n", "^">> \o IntToStr(d)}

IterativeReport(d) ==
    /\ out.bound.notation = "Θ"
    /\ out.bound.complexity = NToThe(d)
    /\ \E rhs \in CTimesNToThe(d) : out.recurrence.equation = Str_Tn_eq \o rhs

\* C7: for every function with no recursion the asymptotic engine reports
\* Θ(n^d), d the maximum nesting depth of For/While/Repeat loops in its body
\* (also through If branches), with equation T(n) = c for d = 0 and a
\* right-hand side c·n^d for d >= 1.
C7_IterativeIsThetaNToTheDepth ==
    (out.done /\ ~out.rec_info.has_recursion)
        => IterativeReport(LoopNesting(fn))

\* C7, the input on which it fails: a function whose only statement is a loop
\* with an empty body has d = 1 and is reported Θ(1) with T(n) = c.
C7_EmptyLoopReportedConstant ==
    /\ out.done
    /\ fn.body = <<Wrap("For", <<>>)>>
    /\ LoopNesting(fn) = 1
    /\ out.bound.complexity = <<"1">>
    /\ out.recurrence.equation = Str_Tn_eq \o <<"c">>

\* C7 restricted to functions in which every loop has a statement in its
\* body: there the report is Θ(n^d).
C7_HoldsWhenNoLoopIsEmpty ==
    (out.done /\ ~out.rec_info.has_recursion /\ ~HasEmptyLoop(fn))
        => IterativeReport(LoopNesting(fn))

\* C7, a deep case of the restricted statement: four nested loops are
\* reported Θ(n^4) with cn^4 in the equation.
C7_DepthFourReached ==
    /\ out.done
    /\ ~HasEmptyLoop(fn)
    /\ LoopNesting(fn) = 4
    /\ out.bound.complexity = <<"n", "^", "4">>
    /\ Contains(out.recurrence.equation, <<"c", "n", "^", "4">>)

(***************************************************************************)
(* The engines on functions that call themselves.                          *)
(***************************************************************************)
MaxStmts == 4

RecCall(arg) == Call("f", <<arg>>)

ArgDec1 == BinOp(Var("n"), "-", Number(1))

ArgDec2 == BinOp(Var("n"), "-", Number(2))

ArgHalf == BinOp(Var("n"), "/", Number(2))

LoopOverInput == For("i", Number(1), Var("n"), <<PlainStmt>>)

CallInCondition ==
    If(Condition(RecCall(ArgDec1), ">", Number(0)), <<Return(Number(1))>>, <<>>)

OnePlus(expr) == BinOp(Number(1), "+", expr)

\* The statements a body is built from: the recursive call as a return
\* value, as an assigned value, inside an If condition and as an operand of
\* a returned sum, and statements without a call.
CallStmts ==
    { Return(RecCall(ArgDec1)), Return(RecCall(ArgDec2)),
      Return(RecCall(ArgHalf)),
      Assignment("x", RecCall(ArgDec1)), Assignment("x", RecCall(ArgHalf)),
      CallInCondition, Return(OnePlus(RecCall(ArgHalf))),
      Return(Number(1)), PlainStmt, LoopOverInput }

\* At most MaxStmts statements in the function, nested ones included.
FitsCalls(f) == NodeCount(f) <= MaxStmts + 1

AppendStmt ==
    /\ out = NoOut
    /\ \E s \in CallStmts :
          LET f == [fn EXCEPT !.body = Append(@, s)]
          IN  FitsCalls(f) /\ fn' = f
    /\ UNCHANGED <<out, restVars>>

\* The last two statements become the branches of one If.
JoinIf ==
    /\ out = NoOut
    /\ Len(fn.body) >= 2
    /\ LET n == Len(fn.body)
           f == [fn EXCEPT !.body =
                    Append(SubSeq(@, 1, n - 2),
                           If(IfCond, <<@[n - 1]>>, <<@[n]>>))]
       IN  FitsCalls(f) /\ fn' = f
    /\ UNCHANGED <<out, restVars>>

\* The last statement becomes the body of a While loop.
LoopLast ==
    /\ out = NoOut
    /\ fn.body # <<>>
    /\ LET n == Len(fn.body)
           f == [fn EXCEPT !.body[n] = While(LoopCond, <<@>>)]
       IN  FitsCalls(f) /\ fn' = f
    /\ UNCHANGED <<out, restVars>>

NextCalls == AppendStmt \/ JoinIf \/ LoopLast \/ Analyze

SpecCalls == Init /\ [][NextCalls]_vars

(***************************************************************************)
(* Claims about recursive functions                                        *)
(***************************************************************************)
\* Every call of func_name written under a node, wherever it stands: in
\* statements, expressions, conditions, loop bounds and array indices.
RECURSIVE CallSites(_, _)
CallSites(node, func_name) ==
    LET RECURSIVE over(_)
        over(items) ==
            IF items = <<>> THEN <<>>
            ELSE CallSites(Head(items), func_name) \o over(Tail(items))
    IN  CASE node.k = "Function" -> over(node.body)
          [] node.k \in {"Assignment", "Return"} ->
                 CallSites(node.expr, func_name)
          [] node.k = "For" ->
                 CallSites(node.start, func_name)
                 \o CallSites(node.end, func_name) \o over(node.body)
          [] node.k \in {"While", "Repeat"} ->
                 CallSites(node.condition, func_name) \o over(node.body)
          [] node.k = "If" ->
                 CallSites(node.condition, func_name)
                 \o over(node.then_body) \o over(node.else_body)
          [] node.k = "Call" ->
                 (IF node.name = func_name THEN <<node>> ELSE <<>>)
                 \o over(node.args)
          [] node.k \in {"BinOp", "Condition"} ->
                 CallSites(node.left, func_name)
                 \o CallSites(node.right, func_name)
          [] node.k = "ArrayAccess" -> CallSites(node.index, func_name)
          [] OTHER -> <<>>

IsDivision(arg) == arg.k = "BinOp" /\ arg.op = "/"

OneCallNoDivision ==
    LET sites == CallSites(fn, fn.name)
    IN  Len(sites) = 1 /\ ~IsDivision(sites[1].args[1])

LinearRelation == Str_Tn_eq \o Str_T_n_1 \o Str_plus \o Str_O1

ClassifiedLinear ==
    /\ out.rec_info.pattern_type = "linear"
    /\ out.rec_info.recurrence_relation = LinearRelation

Theta(text) == <<"Θ", "(">> \o text \o <<")">>

\* C8: every function with exactly one recursive call site whose argument is
\* not a division is classified linear with relation T(n) = T(n-1) + O(1),
\* and every function so classified is reported Θ(n).
C8_OneCallIsLinearAndThetaN ==
    out.done =>
        /\ OneCallNoDivision => ClassifiedLinear
        /\ ClassifiedLinear => heur_complexity(out.bound) = Theta(<<"n">>)

\* C8, the input on which it fails: the only call site is the condition of
\* an If; the classifier collects no call and the report is Θ(1).
C8_CallInConditionNotCollected ==
    /\ out.done
    /\ fn.body = <<CallInCondition>>
    /\ OneCallNoDivision
    /\ out.rec_info.pattern_type = "none"
    /\ ~out.rec_info.has_recursion
    /\ heur_complexity(out.bound) = Theta(<<"1">>)

\* C8 restricted to functions whose call site the classifier collects.
C8_HoldsWhenTheCallIsCollected ==
    out.done =>
        /\ (OneCallNoDivision /\ Len(out.rec_info.recursive_calls) = 1)
               => ClassifiedLinear
        /\ ClassifiedLinear => heur_complexity(out.bound) = Theta(<<"n">>)

C8_LinearReached ==
    /\ out.done
    /\ OneCallNoDivision
    /\ ClassifiedLinear
    /\ heur_complexity(out.bound) = Theta(<<"n">>)

IsRecursiveReturn(stmt) ==
    stmt.k = "Return" /\ is_recursive_call(stmt.expr, fn.name)

\* The two call sites of fn are the returns of the two branches of one If.
BinarySearchShape ==
    /\ Len(CallSites(fn, fn.name)) = 2
    /\ \E i \in 1..Len(fn.body) :
          /\ fn.body[i].k = "If"
          /\ Len(fn.body[i].then_body) = 1
          /\ Len(fn.body[i].else_body) = 1
          /\ IsRecursiveReturn(fn.body[i].then_body[1])
          /\ IsRecursiveReturn(fn.body[i].else_body[1])

HalvingRelation == Str_Tn_eq \o Str_T_n_half \o Str_plus \o Str_O1


\* C9: for a function whose two recursive call sites are the returns of the
\* then-branch and the else-branch of one If, the pipeline reports pattern
\* binary_exclusive, heuristic equation T(n) = T(n/2) + O(1) and heuristic
\* complexity Θ(log n).
C9_BinarySearchIsThetaLogN ==
    (out.done /\ BinarySearchShape) =>
        /\ out.rec_info.pattern_type = "binary_exclusive"
        /\ out.recurrence.equation = HalvingRelation
        /\ heur_complexity(out.bound) = Theta(Str_log_n)

\* C9, the input on which it fails: if ... return f(n/2) else return f(n/2)
\* is classified binary_exclusive with the halving relation, and the engine
\* reports T(n) = 2T(n-1) + c and Θ(2^n).
C9_BinarySearchReportedExponential ==
    /\ out.done
    /\ fn.body = <<If(IfCond, <<Return(RecCall(ArgHalf))>>,
                      <<Return(RecCall(ArgHalf))>>)>>
    /\ BinarySearchShape
    /\ out.rec_info.pattern_type = "binary_exclusive"
    /\ out.rec_info.recurrence_relation = HalvingRelation
    /\ out.recurrence.equation
           = Str_Tn_eq \o kT(2, <<"-", "1">>) \o Str_plus \o <<"c">>
    /\ out.recurrence.method_used = "Substitution"
    /\ heur_complexity(out.bound) = Theta(<<"2", "^", "n">>)

\* C9, the part that holds: the classifier's side of the report.
C9_ClassifierSideHolds ==
    (out.done /\ BinarySearchShape) =>
        /\ out.rec_info.pattern_type = "binary_exclusive"
        /\ out.rec_info.recurrence_relation = HalvingRelation

\* Two collected calls, both on n/2, not in exclusive branches, classified
\* divide_conquer, in a function with a loop.
MergeSortShape ==
    /\ out.rec_info.pattern_type = "divide_conquer"
    /\ ~out.rec_info.exclusive_branch_calls
    /\ Len(out.rec_info.recursive_calls) = 2
    /\ \A i \in 1..2 : out.rec_info.recursive_calls[i].node.args = <<ArgHalf>>
    /\ LoopNesting(fn) >= 1

\* C10: for every function classified divide_conquer with two non-exclusive
\* recursive calls on n/2 and a loop over the input in its body, the engine
\* builds the recurrence with a = 2, b = 2 and f(n) = n, solves it with the
\* Master Theorem and reports Θ(n log n).
C10_MergeSortIsThetaNLogN ==
    (out.done /\ MergeSortShape) =>
        /\ out.recurrence.a = 2
        /\ out.recurrence.b = 2
        /\ out.recurrence.f_n = <<"n">>
        /\ out.recurrence.method_used = "Master Theorem"
        /\ heur_complexity(out.bound) = Theta(<<"n", " ">> \o Str_log_n)

\* C10, its case reached: x = f(n/2); x = f(n/2); for i = 1 to n ...
C10_MergeSortAnalysed ==
    /\ out.done
    /\ fn.body = <<Assignment("x", RecCall(ArgHalf)),
                   Assignment("x", RecCall(ArgHalf)), LoopOverInput>>
    /\ MergeSortShape
    /\ out.recurrence.equation
           = Str_Tn_eq \o kT(2, <<"/", "2">>) \o Str_plus \o <<"n">>
    /\ heur_complexity(out.bound) = Theta(<<"n", " ">> \o Str_log_n)

\* The argument subtracts a constant from the parameter n.
IsDecrement(arg) ==
    /\ arg.k = "BinOp"
    /\ arg.op = "-"
    /\ arg.left = Var("n")
    /\ arg.right.k = "Number"

\* The constants the call sites of fn subtract from n, one per call site.
Decrements ==
    LET sites == CallSites(fn, fn.name)
    IN  [i \in 1..Len(sites) |->
            IF IsDecrement(sites[i].args[1]) THEN sites[i].args[1].right.value
            ELSE 0]

\* Exactly two call sites, on n - c1 and n - c2 with c1 # c2, that are not
\* the returns of the two branches of an If.
FibonacciShape ==
    /\ Len(Decrements) = 2
    /\ Decrements[1] # 0
    /\ Decrements[2] # 0
    /\ Decrements[1] # Decrements[2]
    /\ ~out.rec_info.exclusive_branch_calls

FibonacciReport ==
    /\ out.rec_info.pattern_type = "binary"
    /\ Contains(out.recurrence.equation, Str_T_n_1)
    /\ Contains(out.recurrence.equation, Str_T_n_2)
    /\ out.recurrence.method_used = "Recurrence Tree"
    /\ heur_complexity(out.bound) = Theta(<<"2", "^", "n">>)

\* C11: for every function with exactly two non-exclusive recursive call
\* sites whose arguments subtract different constants from n, the pipeline
\* reports pattern binary, an equation containing T(n-1) and T(n-2), method
\* Recurrence Tree and complexity Θ(2^n).
C11_FibonacciIsBinaryAndExponential ==
    (out.done /\ FibonacciShape) => FibonacciReport

\* C11, the input on which it fails: f(n - 1) is the left side of an If
\* condition and f(n - 2) is returned; the classifier collects one call and
\* the report is linear, T(n) = T(n-1) + c, Θ(n).
C11_OneOfTheTwoCallsNotCollected ==
    /\ out.done
    /\ fn.body = <<CallInCondition, Return(RecCall(ArgDec2))>>
    /\ FibonacciShape
    /\ Len(out.rec_info.recursive_calls) = 1
    /\ out.rec_info.pattern_type = "linear"
    /\ out.recurrence.equation = Str_Tn_eq \o Str_T_n_1 \o Str_plus \o <<"c">>
    /\ out.recurrence.method_used = "Substitution"
    /\ heur_complexity(out.bound) = Theta(<<"n">>)

\* C11 restricted to functions whose two call sites the classifier collects.
C11_HoldsWhenBothCallsAreCollected ==
    (out.done /\ FibonacciShape /\ Len(out.rec_info.recursive_calls) = 2)
        => FibonacciReport

C11_FibonacciAnalysed ==
    /\ out.done
    /\ fn.body = <<Assignment("x", RecCall(ArgDec1)), Return(RecCall(ArgDec2))>>
    /\ FibonacciShape
    /\ FibonacciReport

\* Exactly two call sites, both on n - c for the same constant c, that are
\* not the returns of the two branches of an If.
HanoiShape ==
    /\ Len(Decrements) = 2
    /\ Decrements[1] # 0
    /\ Decrements[1] = Decrements[2]
    /\ ~out.rec_info.exclusive_branch_calls

HanoiRelation == Str_Tn_eq \o kT(2, <<"-", "1">>) \o Str_plus \o Str_O1

\* C12: for every function with exactly two non-exclusive recursive call
\* sites that subtract the same constant from n, the classifier's relation
\* is T(n) = 2T(n-1) + O(1) and the heuristic complexity is Θ(2^n).
C12_HanoiIsExponential ==
    (out.done /\ HanoiShape) =>
        /\ out.rec_info.recurrence_relation = HanoiRelation
        /\ heur_complexity(out.bound) = Theta(<<"2", "^", "n">>)

\* C12, the input on which it fails: x = f(n - 1); return f(n - 1) has the
\* classifier's relation T(n) = 2T(n-1) + O(1), from which the engine reads
\* no a and b, and is reported T(n) = 2T(n/2) + c, Θ(n).
C12_HanoiReportedLinear ==
    /\ out.done
    /\ fn.body = <<Assignment("x", RecCall(ArgDec1)), Return(RecCall(ArgDec1))>>
    /\ HanoiShape
    /\ out.rec_info.pattern_type = "divide_conquer"
    /\ out.rec_info.recurrence_relation = HanoiRelation
    /\ out.rec_info.estimated_complexity = "O(2^n)"
    /\ out.recurrence.equation
           = Str_Tn_eq \o kT(2, <<"/", "2">>) \o Str_plus \o <<"c">>
    /\ out.recurrence.method_used = "Master Theorem"
    /\ heur_complexity(out.bound) = Theta(<<"n">>)

\* C12, the part that holds: the classifier's relation and its own estimate,
\* when it collects both call sites.
C12_ClassifierSideHolds ==
    (out.done /\ HanoiShape /\ Len(out.rec_info.recursive_calls) = 2) =>
        /\ out.rec_info.recurrence_relation = HanoiRelation
        /\ out.rec_info.estimated_complexity = "O(2^n)"


(***************************************************************************)
(* One orchestrator analysing source texts.                                *)
(* A caller hands process_code any of the source texts, any number of      *)
(* times; in any call one of the stages may meet an input on which it      *)
(* raises.                                                                 *)
(***************************************************************************)
DefaultHint == "IA_Generated"

\* results collects what the calls in which no stage raised returned.
ProcessCode ==
    \E code \in Sources, raises \in Stages \cup {""} :
        \E eng \in {Engines(analysis_cache, function_costs, math_cache)} :
        \E call \in {process_code(code, DefaultHint, raises, eng)} :
            /\ CanRaise(code, raises, eng)
            /\ analysis_cache' = call.eng.analysis_cache
            /\ function_costs' = call.eng.function_costs
            /\ math_cache' = call.eng.math_cache
            /\ results' = IF call.stage # "" THEN results
                          ELSE [results EXCEPT ![code] = @ \cup {call.result}]
            /\ last' = <<[op |-> "process_code", code |-> code,
                          stage |-> call.stage, result |-> call.result]>>
            /\ UNCHANGED <<engineVars, fileVars, dpVars, nodeVars>>

Next == ProcessCode

Spec == Init /\ [][Next]_vars

(***************************************************************************)
(* Claims about process_code                                               *)
(***************************************************************************)
AnalysisResultFields ==
    {"filename", "name", "code", "ast_node", "math_expression",
     "math_complexity", "heur_equation", "heur_base_cases",
     "heur_complexity", "heur_notation", "heur_method", "heur_explanation",
     "is_recursive", "recursion_pattern", "tree_structure_data", "error",
     "level_costs"}

HoldsSentinels(r) ==
    /\ r.math_expression = NoExpr
    /\ r.math_complexity = NoOrder
    /\ r.heur_equation = <<"N/A">>
    /\ r.heur_base_cases = <<"N/A">>
    /\ r.heur_complexity = <<"N/A">>
    /\ r.heur_method = "N/A"
    /\ r.tree_structure_data = NoTree
    /\ r.level_costs = <<>>

C2_SameSourceSameResult ==
    \A code \in Sources : Cardinality(results[code]) <= 1

\* C2, the input on which it fails: h, which calls g, costs 4 when analysed
\* before a program defining g and T_g(n) + 3 when analysed after it.
C2_CalleeAnalysedInBetween ==
    /\ last # <<>>
    /\ last[1].code = SrcH
    /\ last[1].stage = ""
    /\ last[1].result.math_expression
           = [kind |-> "Expr", rhs |-> cost_add(Cost(3, EmptyBag), cost_symbol("g"))]
    /\ \E r \in results[SrcH] :
           r.math_expression = [kind |-> "Expr", rhs |-> Cost(4, EmptyBag)]

\* C2 restricted to the sources whose function calls no other function.
C2_HoldsWithoutCallsToOtherFunctions ==
    \A code \in Sources \ {SrcH} : Cardinality(results[code]) <= 1

\* C14: when parsing succeeded and a later stage raised, the result has its
\* error set and keeps the fields the completed stages computed: the name of
\* the function always, is_recursive and recursion_pattern once the
\* classifier has run.
C14_PartialResultsKeepCompletedFields ==
    (last # <<>> /\ last[1].op = "process_code" /\ last[1].stage \in Stages) =>
        LET f == parse_code(last[1].code).ast.functions[1]
            r == last[1].result
        IN  /\ r.error # <<>>
            /\ r.name = f.name
            /\ last[1].stage # "classify" =>
                   LET info == analysis_cache[generate_function_key(f)]
                   IN  /\ r.is_recursive = info.has_recursion
                       /\ r.recursion_pattern = info.pattern_type

\* C14, the input on which it fails: the heuristic engine raised on the
\* countdown function after the classifier had found it recursive and linear
\* and the math engine had costed it; the result is named "Error" and
\* carries the defaults of every other field.
C14_CompletedStagesDiscarded ==
    /\ last # <<>>
    /\ last[1].op = "process_code"
    /\ last[1].code = SrcCountdown
    /\ last[1].stage = "heur"
    /\ analysis_cache[generate_function_key(
           parse_code(SrcCountdown).ast.functions[1])].pattern_type = "linear"
    /\ "f" \in DOMAIN function_costs
    /\ last[1].result.error = <<StageErrors.heur>>
    /\ last[1].result.name = "Error"
    /\ last[1].result.ast_node = <<>>
    /\ ~last[1].result.is_recursive
    /\ last[1].result.recursion_pattern = "iterative"
    /\ last[1].result.math_expression = NoExpr

\* C14, the part that holds: the error is set and the source text is kept.
C14_ErrorAndCodeAreSet ==
    (last # <<>> /\ last[1].op = "process_code" /\ last[1].stage \in Stages) =>
        /\ last[1].result.error # <<>>
        /\ last[1].result.code = last[1].code

\* The patterns the classifier has for a number of call sites.
PatternsOfCount(count) ==
    CASE count = 0 -> {"none"}
      [] count = 1 -> {"linear", "divide_conquer"}
      [] count = 2 -> {"binary", "binary_exclusive", "divide_conquer"}
      [] OTHER -> {"multiple"}

\* True when a call of func_name is written in the condition of an If or of
\* a loop under the node.
RECURSIVE CallInSomeCondition(_, _)
CallInSomeCondition(node, func_name) ==
    LET some(items) ==
            \E i \in 1..Len(items) : CallInSomeCondition(items[i], func_name)
    IN  \/ /\ hasattr(node, "condition")
           /\ CallSites(node.condition, func_name) # <<>>
        \/ hasattr(node, "body") /\ some(node.body)
        \/ node.k = "If" /\ (some(node.then_body) \/ some(node.else_body))

CollectedNodes ==
    { out.rec_info.recursive_calls[i].node :
        i \in 1..Len(out.rec_info.recursive_calls) }

WrittenNodes ==
    { CallSites(fn, fn.name)[i] : i \in 1..Len(CallSites(fn, fn.name)) }

\* C19: the classifier collects every call of the function written in its
\* body, wherever it stands; has_recursion is true iff there is one, and the
\* pattern is one of those of the number of call sites written.
C19_EveryCallSiteIsCollected ==
    out.done =>
        /\ Len(out.rec_info.recursive_calls) = Len(CallSites(fn, fn.name))
        /\ CollectedNodes = WrittenNodes
        /\ out.rec_info.has_recursion <=> CallSites(fn, fn.name) # <<>>
        /\ out.rec_info.pattern_type
               \in PatternsOfCount(Len(CallSites(fn, fn.name)))

\* C19 witness of the divergence: the call written in the condition of an
\* If inside a loop is not collected, and the function is reported as not
\* recursive.
C19_CallInConditionInsideLoopNotCollected ==
    /\ out.done
    /\ fn.body = <<While(LoopCond, <<CallInCondition>>)>>
    /\ Len(CallSites(fn, fn.name)) = 1
    /\ out.rec_info.recursive_calls = <<>>
    /\ ~out.rec_info.has_recursion
    /\ out.rec_info.pattern_type = "none"

\* C19, the part the code has: when no call is written in a condition (the
\* functions built here have no call in a loop bound or an array index),
\* every call site is collected and counted.
C19_HoldsWithoutCallsInConditions ==
    (out.done /\ ~CallInSomeCondition(fn, fn.name)) =>
        /\ Len(out.rec_info.recursive_calls) = Len(CallSites(fn, fn.name))
        /\ CollectedNodes = WrittenNodes
        /\ out.rec_info.has_recursion <=> CallSites(fn, fn.name) # <<>>
        /\ out.rec_info.pattern_type
               \in PatternsOfCount(Len(CallSites(fn, fn.name)))

\* An arithmetic expression with a call of fn as an operand.
IsCallInArithmetic(expr) ==
    /\ expr.k = "BinOp"
    /\ \/ is_recursive_call(expr.left, fn.name)
       \/ is_recursive_call(expr.right, fn.name)

\* A Return of a call of fn, alone or as an operand of an arithmetic
\* expression.
ReturnsACall(stmt) ==
    /\ stmt.k = "Return"
    /\ \/ is_recursive_call(stmt.expr, fn.name)
       \/ IsCallInArithmetic(stmt.expr)

\* True when an If under the node has a Return of a call of fn in its
\* then-branch and in its else-branch.
RECURSIVE ExclusiveReturnsUnder(_)
ExclusiveReturnsUnder(node) ==
    LET some(items) == \E i \in 1..Len(items) : ExclusiveReturnsUnder(items[i])
        returns(items) == \E i \in 1..Len(items) : ReturnsACall(items[i])
    IN  \/ /\ node.k = "If"
           /\ returns(node.then_body)
           /\ returns(node.else_body)
        \/ hasattr(node, "body") /\ some(node.body)
        \/ node.k = "If" /\ (some(node.then_body) \/ some(node.else_body))

\* C20: exclusive_branch_calls is true whenever an If, at any depth of the
\* body, returns a call of the function in its then-branch and in its
\* else-branch, also when the call is an operand of an arithmetic
\* expression.
C20_ExclusiveReturnsAreRecognised ==
    (out.done /\ ExclusiveReturnsUnder(fn)) =>
        out.rec_info.exclusive_branch_calls

\* C20 witness of the divergence: both branches return 1 + f(n/2), and
\* exclusive_branch_calls is false; the two calls are classified
\* divide_conquer.
C20_ArithmeticReturnsNotRecognised ==
    /\ out.done
    /\ fn.body = <<If(IfCond, <<Return(OnePlus(RecCall(ArgHalf)))>>,
                      <<Return(OnePlus(RecCall(ArgHalf)))>>)>>
    /\ ExclusiveReturnsUnder(fn)
    /\ Len(out.rec_info.recursive_calls) = 2
    /\ ~out.rec_info.exclusive_branch_calls
    /\ out.rec_info.pattern_type = "divide_conquer"
    /\ out.rec_info.recurrence_relation
           = Str_Tn_eq \o kT(2, <<"/", "2">>) \o Str_plus \o Str_On

\* C20, the part the code has: when the two returns are the calls
\* themselves, at any depth.
RECURSIVE PlainExclusiveReturnsUnder(_)
PlainExclusiveReturnsUnder(node) ==
    LET some(items) ==
            \E i \in 1..Len(items) : PlainExclusiveReturnsUnder(items[i])
        returns(items) == \E i \in 1..Len(items) : IsRecursiveReturn(items[i])
    IN  \/ /\ node.k = "If"
           /\ returns(node.then_body)
           /\ returns(node.else_body)
        \/ hasattr(node, "body") /\ some(node.body)
        \/ node.k = "If" /\ (some(node.then_body) \/ some(node.else_body))

C20_HoldsForReturnsOfTheCallItself ==
    (out.done /\ PlainExclusiveReturnsUnder(fn)) =>
        out.rec_info.exclusive_branch_calls

\* C20: the If of two returned calls inside a loop is recognised.
C20_NestedExclusiveReturnsRecognised ==
    /\ out.done
    /\ fn.body = <<While(LoopCond,
                         <<If(IfCond, <<Return(RecCall(ArgHalf))>>,
                              <<Return(RecCall(ArgHalf))>>)>>)>>
    /\ out.rec_info.exclusive_branch_calls

\* C21: for every function with three or more call sites of itself, the
\* classifier reports the pattern multiple and the relation
\* T(n) = kT(n-1) + O(1), k being the number of call sites.
C21_ThreeOrMoreCallsAreMultiple ==
    (out.done /\ Len(CallSites(fn, fn.name)) >= 3) =>
        /\ out.rec_info.pattern_type = "multiple"
        /\ out.rec_info.recurrence_relation
               = Str_Tn_eq
                 \o kT(Len(CallSites(fn, fn.name)), <<"-", "1">>)
                 \o Str_plus \o Str_O1

\* C21 witness of the divergence: three call sites, all collected, two of
\* them the returns of the branches of an If; the pattern is multiple and
\* the relation the one of exclusive branches, T(n) = T(n/2) + O(1).
C21_ExclusiveBranchesGiveHalvingRelation ==
    /\ out.done
    /\ fn.body = <<If(IfCond, <<Return(RecCall(ArgHalf))>>,
                      <<Return(RecCall(ArgHalf))>>),
                   Return(RecCall(ArgDec1))>>
    /\ Len(out.rec_info.recursive_calls) = 3
    /\ out.rec_info.exclusive_branch_calls
    /\ out.rec_info.pattern_type = "multiple"
    /\ out.rec_info.recurrence_relation = HalvingRelation
    /\ out.rec_info.estimated_complexity = "O(log n)"

\* C21, the part the code has: when the call sites are all collected and no
\* If returns a call in both branches.
C21_HoldsWithoutExclusiveBranches ==
    ( /\ out.done
      /\ Len(CallSites(fn, fn.name)) >= 3
      /\ Len(out.rec_info.recursive_calls) = Len(CallSites(fn, fn.name))
      /\ ~out.rec_info.exclusive_branch_calls ) =>
        /\ out.rec_info.pattern_type = "multiple"
        /\ out.rec_info.recurrence_relation
               = Str_Tn_eq
                 \o kT(Len(CallSites(fn, fn.name)), <<"-", "1">>)
                 \o Str_plus \o Str_O1

\* C21: three returned calls are multiple with T(n) = 3T(n-1) + O(1).
C21_ThreeCallsClassified ==
    /\ out.done
    /\ Len(fn.body) = 3
    /\ \A i \in 1..3 : fn.body[i] = Return(RecCall(ArgDec1))
    /\ out.rec_info.pattern_type = "multiple"
    /\ out.rec_info.recurrence_relation
           = Str_Tn_eq \o kT(3, <<"-", "1">>) \o Str_plus \o Str_O1

\* C22: when the body of a function the classifier found recursive contains
\* a loop over the input, the recurrence of the asymptotic engine has the
\* work term f(n) = n, whatever the pattern.
C22_LoopGivesLinearWorkTerm ==
    (out.done /\ out.rec_info.has_recursion /\ LoopNesting(fn) >= 1) =>
        out.recurrence.f_n = <<"n">>

\* C22 witness of the divergence: a loop over the input and one call on
\* n - 1 give T(n) = T(n-1) + c with work term c, and the bound Θ(n).
C22_LinearRecursionWithLoopHasConstantWork ==
    /\ out.done
    /\ fn.body = <<LoopOverInput, Return(RecCall(ArgDec1))>>
    /\ out.rec_info.pattern_type = "linear"
    /\ out.recurrence.equation = Str_Tn_eq \o Str_T_n_1 \o Str_plus \o <<"c">>
    /\ out.recurrence.f_n = <<"c">>
    /\ heur_complexity(out.bound) = Theta(<<"n">>)

\* C22: a loop over the input and one call on n / 2 give T(n) = 1T(n/2) + c,
\* work term c, when the engine is handed the Function node.
C22_HalvingRecursionWithLoopHasConstantWork ==
    /\ out.done
    /\ fn.body = <<LoopOverInput, Return(RecCall(ArgHalf))>>
    /\ out.rec_info.pattern_type = "divide_conquer"
    /\ out.recurrence.f_n = <<"c">>
    /\ out.recurrence.equation
           = Str_Tn_eq \o kT(1, <<"/", "2">>) \o Str_plus \o <<"c">>

\* C22, the part the code has: the work term is n for the pattern
\* divide_conquer when the classifier's relation has the term O(n).
C22_HoldsWhenTheRelationHasLinearWork ==
    ( /\ out.done
      /\ out.rec_info.pattern_type = "divide_conquer"
      /\ Contains(out.rec_info.recurrence_relation, Str_On) ) =>
        out.recurrence.f_n = <<"n">>


\* The growth class an estimate of the classifier names: the text inside
\* its O( ).
EstimateClass(estimated_complexity) ==
    CASE estimated_complexity = "O(1)" -> <<"1">>
      [] estimated_complexity = "O(log n)" -> Str_log_n
      [] estimated_complexity = "O(n)" -> <<"n">>
      [] estimated_complexity = "O(n log n)" -> <<"n", " ">> \o Str_log_n
      [] estimated_complexity = "O(2^n)" -> <<"2", "^", "n">>
      [] OTHER -> <<"?">>

IsRecursive == out.done /\ out.rec_info.has_recursion

\* C27: for every recursive function, the estimated_complexity recorded in
\* its RecursionInfo names the same growth class as the bound the asymptotic
\* engine derives from that RecursionInfo.
C27_EstimateAndBoundAgree ==
    IsRecursive =>
        EstimateClass(out.rec_info.estimated_complexity) = out.bound.complexity

\* C27 witness of the divergence: three calls on n - 1 are recorded with the
\* relation T(n) = 3T(n-1) + O(1) and the estimate O(n), and the engine
\* derives 3^n.
C27_ThreeCallsEstimatedLinear ==
    /\ IsRecursive
    /\ fn.body = <<Return(RecCall(ArgDec1)), Return(RecCall(ArgDec1)),
                   Return(RecCall(ArgDec1))>>
    /\ out.rec_info.pattern_type = "multiple"
    /\ out.rec_info.recurrence_relation
           = Str_Tn_eq \o kT(3, <<"-", "1">>) \o Str_plus \o Str_O1
    /\ out.rec_info.estimated_complexity = "O(n)"
    /\ out.bound.complexity = <<"3", "^", "n">>

\* C27, the part the code has: the estimate and the bound name the same
\* class for one collected call, for two calls classified binary, and for
\* two calls classified divide_conquer that halve n.
C27_HoldsForOneCallAndHalvingPairs ==
    ( /\ IsRecursive
      /\ \/ Len(out.rec_info.recursive_calls) = 1
         \/ out.rec_info.pattern_type = "binary"
         \/ /\ out.rec_info.pattern_type = "divide_conquer"
            /\ out.rec_info.recurrence_relation # HanoiRelation ) =>
        EstimateClass(out.rec_info.estimated_complexity) = out.bound.complexity

\* C27: one call on n - 1, linear on both sides.
C27_LinearOnBothSides ==
    /\ IsRecursive
    /\ fn.body = <<Return(RecCall(ArgDec1))>>
    /\ out.rec_info.estimated_complexity = "O(n)"
    /\ out.bound.complexity = <<"n">>
(***************************************************************************)
(* One orchestrator analysing the program of one function.                 *)
(* The function is built statement by statement; process_code is handed    *)
(* the source text that parse_code turns into the Program of that one      *)
(* function, and every stage handles it.                                   *)
(***************************************************************************)
\* The source text, denoted by the function it is parsed to.
SourceOf(f) == <<"source of", f>>

ProcessBuilt ==
    /\ out = NoOut
    /\ \E eng \in {Engines(analysis_cache, function_costs, math_cache)} :
       \E run \in {pipeline(SourceOf(fn), DefaultHint, "", eng,
                            Program(<<fn>>))} :
       \E call \in {returned(SourceOf(fn), DefaultHint, run)} :
          /\ out' = [done |-> TRUE, result |-> call.result]
          /\ analysis_cache' = call.eng.analysis_cache
          /\ function_costs' = call.eng.function_costs
          /\ math_cache' = call.eng.math_cache
    /\ UNCHANGED <<fn, last, results, fileVars, dpVars, nodeVars>>

NextForms == AppendStmt \/ JoinIf \/ LoopLast \/ ProcessBuilt

SpecForms == Init /\ [][NextForms]_vars

(***************************************************************************)
(* Claims about the reported forms                                         *)
(***************************************************************************)
\* The text is a decimal numeral of an integer >= 2.
IsNumeralFrom2(s) ==
    /\ s # <<>>
    /\ \A i \in 1..Len(s) : IsDigit(s[i])
    /\ s[1] # "0"
    /\ StrToInt(s) >= 2

\* 1, log n, n, n log n, n^k with k >= 2, a^n with a >= 2, n!.
IsCanonicalClass(c) ==
    \/ c \in {<<"1">>, Str_log_n, <<"n">>, <<"n", " ">> \o Str_log_n,
              <<"n", "!">>}
    \/ /\ Len(c) >= 3
       /\ SubSeq(c, 1, 2) = <<"n", "^">>
       /\ IsNumeralFrom2(SubSeq(c, 3, Len(c)))
    \/ /\ Len(c) >= 3
       /\ SubSeq(c, Len(c) - 1, Len(c)) = <<"^", "n">>
       /\ IsNumeralFrom2(SubSeq(c, 1, Len(c) - 2))

IsCanonicalForm(text) ==
    /\ Len(text) >= 3
    /\ SubSeq(text, 1, 2) = <<"Θ", "(">>
    /\ text[Len(text)] = ")"
    /\ IsCanonicalClass(SubSeq(text, 3, Len(text) - 1))

\* C13: every result process_code returns without an error has
\* heur_notation Θ, a heur_complexity of one of the canonical forms Θ(1),
\* Θ(log n), Θ(n), Θ(n log n), Θ(n^k), Θ(a^n), Θ(n!), and a non-empty
\* heur_equation.
C13_ReportedFormsAreCanonical ==
    (out.done /\ out.result.error = <<>>) =>
        /\ out.result.heur_notation = "Θ"
        /\ out.result.heur_complexity[1] = "Θ"
        /\ IsCanonicalForm(out.result.heur_complexity)
        /\ out.result.heur_equation # <<>>
        /\ out.result.heur_equation # <<"N/A">>

\* C13, its cases reached: a function with three recursive calls is
\* reported Θ(3^n).
C13_ThreeCallsReported ==
    /\ out.done
    /\ out.result.error = <<>>
    /\ out.result.recursion_pattern = "multiple"
    /\ out.result.heur_notation = "Θ"
    /\ out.result.heur_complexity = Theta(<<"3", "^", "n">>)
    /\ out.result.heur_equation
           = Str_Tn_eq \o kT(3, <<"-", "1">>) \o Str_plus \o <<"c">>

(***************************************************************************)
(* One orchestrator analysing files.                                       *)
(* An editor writes source texts to files, and a caller hands their paths  *)
(* to process_file.                                                        *)
(***************************************************************************)
Paths == {"a.txt", "b.txt"}

FileTexts == {SrcGarbage, SrcG, SrcCountdown}

WriteFile ==
    \E path \in Paths, code \in FileTexts :
        /\ Get(files, path, "") # code
        /\ files' = (path :> code) @@ files
        /\ UNCHANGED <<global_cache, engineVars, cacheVars, mathVars,
                       dpVars, nodeVars>>

\* last records, next to the result, the text of the file when the call was
\* made (read is false when there is no such file), whether that text had
\* been analysed by an earlier call, and whether the result came from
\* _global_cache.
ProcessFile ==
    \E path \in Paths :
        \E call \in {process_file(path, files, global_cache,
                                   Engines(analysis_cache, function_costs,
                                           math_cache))} :
        LET analysed == { global_cache[p].code : p \in DOMAIN global_cache }
        IN  /\ global_cache' = call.global_cache
            /\ analysis_cache' = call.eng.analysis_cache
            /\ function_costs' = call.eng.function_costs
            /\ math_cache' = call.eng.math_cache
            /\ last' = <<[op |-> "process_file", path |-> path,
                          read |-> path \in DOMAIN files,
                          code |-> Get(files, path, ""),
                          known |-> /\ path \in DOMAIN files
                                    /\ files[path] \in analysed,
                          hit |-> call.hit,
                          result |-> call.result]>>
            /\ UNCHANGED <<files, results, engineVars, dpVars, nodeVars>>

NextFiles == WriteFile \/ ProcessFile

SpecFiles == Init /\ [][NextFiles]_vars

\* C3: the orchestrator's result cache is keyed by the source content: once
\* a source has been analysed a later request with the same source is
\* answered from the cache, and a cached result is never returned for a
\* request whose current source text differs from the text that produced it.
C3_CacheKeyedBySourceText ==
    (last # <<>> /\ last[1].op = "process_file" /\ last[1].read) =>
        /\ last[1].known => last[1].hit
        /\ last[1].hit => last[1].result.code = last[1].code

\* C3, the input on which it fails: a.txt is analysed, then rewritten with
\* another text, then analysed again: the result of the old text is returned.
C3_StaleResultForRewrittenFile ==
    /\ last # <<>>
    /\ last[1].op = "process_file"
    /\ last[1].path = "a.txt"
    /\ last[1].hit
    /\ last[1].code = SrcCountdown
    /\ last[1].result.code = SrcG
    /\ last[1].result.name = "g"

\* C3, the other half failing: a text analysed under one path is analysed
\* again, not answered from the cache, when it is requested under another.
C3_KnownTextAnalysedAgain ==
    /\ last # <<>>
    /\ last[1].op = "process_file"
    /\ last[1].known
    /\ ~last[1].hit
    /\ last[1].path = "b.txt"
    /\ "a.txt" \in DOMAIN global_cache
    /\ global_cache["a.txt"].code = last[1].code

\* What the cache does guarantee: a result returned from it is the one
\* stored under the requested path, and its filename is that path.
C3_CacheKeyedByPath ==
    (last # <<>> /\ last[1].op = "process_file" /\ last[1].hit) =>
        /\ last[1].path \in DOMAIN global_cache
        /\ last[1].result = global_cache[last[1].path]
        /\ last[1].result.filename = last[1].path

LastProcessFile == last # <<>> /\ last[1].op = "process_file"

\* C30: process_file stores a result in the orchestrator cache only when the
\* analysis succeeded: a call that ends in an error (the file cannot be
\* read, or the AnalysisResult returned has error set) leaves the cache
\* unchanged, so that a later call on the same path runs the analysis again.
C30_ErrorsAreNotCached ==
    /\ \A path \in DOMAIN global_cache : global_cache[path].error = <<>>
    /\ (LastProcessFile /\ last[1].result.error # <<>>) =>
           /\ ~last[1].hit
           /\ last[1].path \notin DOMAIN global_cache

\* C30 witness of the divergence: a.txt held a text that does not parse when
\* it was first processed; the error result was stored, and the call made
\* after the file was rewritten with a valid function returns that error
\* from the cache.
C30_ErrorResultServedFromCache ==
    /\ LastProcessFile
    /\ last[1].path = "a.txt"
    /\ last[1].code = SrcG
    /\ last[1].hit
    /\ last[1].result.name = "Error"
    /\ last[1].result.error = <<ParseError>>
    /\ global_cache["a.txt"] = last[1].result

\* C30, the part the code has: a call on a file that cannot be read returns
\* an "Error IO" result and stores nothing, and what a call stores is the
\* result it returns.
C30_UnreadableFileIsNotCached ==
    (LastProcessFile /\ ~last[1].hit) =>
        IF last[1].read
        THEN global_cache[last[1].path] = last[1].result
        ELSE /\ last[1].result.name = "Error IO"
             /\ last[1].result.error # <<>>
             /\ last[1].path \notin DOMAIN global_cache

\* C30: b.txt does not exist and is processed after a.txt was cached.
C30_MissingFileProcessed ==
    /\ LastProcessFile
    /\ last[1].path = "b.txt"
    /\ ~last[1].read
    /\ DOMAIN global_cache = {"a.txt"}

(***************************************************************************)
(* One classifier analysing functions.                                     *)
(* A caller hands analyze_recursive_algorithm functions named f of one or  *)
(* two statements, in any order.                                           *)
(***************************************************************************)
CacheStmts ==
    { Return(RecCall(ArgDec1)), Return(RecCall(ArgHalf)), Return(Number(1)),
      PlainStmt }

CacheFunctions ==
    { Function("f", <<"n">>, <<s>>) : s \in CacheStmts }
    \cup { Function("f", <<"n">>, <<s, t>>) : s \in CacheStmts, t \in CacheStmts }

AnalyzeRecursive ==
    \E function_node \in CacheFunctions :
        \E call \in {analyze_recursive_algorithm(analysis_cache,
                                                   function_node)} :
            /\ analysis_cache' = call.cache
            /\ last' = <<[op |-> "analyze_recursive_algorithm",
                          function_node |-> function_node,
                          result |-> call.result]>>
            /\ UNCHANGED <<engineVars, mathVars, fileVars, dpVars, nodeVars>>

NextCache == AnalyzeRecursive

SpecCache == Init /\ [][NextCache]_vars

\* C5: the classifier's cache is keyed by the content of the analysed
\* function: after any sequence of analyze_recursive_algorithm calls on one
\* analyzer, the RecursionInfo returned for a function equals the one a
\* fresh analyzer with an empty cache returns for it.
C5_CachedEqualsFresh ==
    (last # <<>> /\ last[1].op = "analyze_recursive_algorithm") =>
        last[1].result = fresh_analysis(last[1].function_node)

\* C5, the input on which it fails: after f(n) = return f(n - 1) has been
\* analysed, f(n) = return 1 is given the cached linear RecursionInfo.
C5_StaleInfoForSameNameAndLength ==
    /\ last # <<>>
    /\ last[1].op = "analyze_recursive_algorithm"
    /\ last[1].function_node = Function("f", <<"n">>, <<Return(Number(1))>>)
    /\ last[1].result.has_recursion
    /\ last[1].result.pattern_type = "linear"
    /\ ~fresh_analysis(last[1].function_node).has_recursion
    /\ last[1].result
           = fresh_analysis(Function("f", <<"n">>, <<Return(RecCall(ArgDec1))>>))

\* What the cache does guarantee: the value returned for a function is the
\* fresh analysis of some function with the same name and the same number
\* of statements.
C5_CachedIsFreshForSameKey ==
    (last # <<>> /\ last[1].op = "analyze_recursive_algorithm") =>
        \E g \in CacheFunctions :
            /\ generate_function_key(g)
                   = generate_function_key(last[1].function_node)
            /\ last[1].result = fresh_analysis(g)

(***************************************************************************)
(* Recurrence-tree nodes (src/analyzer/recurrence_models.py).              *)
(* Tree builders running in different threads create RecurrenceTreeNode    *)
(* objects without a node_id.  __post_init__ runs                          *)
(*     RecurrenceTreeNode._id_counter += 1                                 *)
(*     object.__setattr__(self, 'node_id', RecurrenceTreeNode._id_counter) *)
(* on the class attribute all nodes share: a read, a write and a second    *)
(* read, between which another thread may run.                             *)
(***************************************************************************)
MaxCreated == 2

\* RecurrenceTreeNode(...) is called and __post_init__ finds node_id == 0.
NewNode(t) ==
    /\ pc[t] = "idle"
    /\ Len(created[t]) < MaxCreated
    /\ pc' = [pc EXCEPT ![t] = "load"]
    /\ UNCHANGED <<id_counter, loaded, created, built_trees>>
    /\ UNCHANGED <<engineVars, cacheVars, mathVars, fileVars, dpVars>>

\* The read of _id_counter in the augmented assignment.
LoadCounter(t) ==
    /\ pc[t] = "load"
    /\ loaded' = [loaded EXCEPT ![t] = id_counter]
    /\ pc' = [pc EXCEPT ![t] = "store"]
    /\ UNCHANGED <<id_counter, created, built_trees>>
    /\ UNCHANGED <<engineVars, cacheVars, mathVars, fileVars, dpVars>>

\* The write of the incremented value.
StoreCounter(t) ==
    /\ pc[t] = "store"
    /\ id_counter' = loaded[t] + 1
    /\ pc' = [pc EXCEPT ![t] = "assign"]
    /\ UNCHANGED <<loaded, created, built_trees>>
    /\ UNCHANGED <<engineVars, cacheVars, mathVars, fileVars, dpVars>>

\* node_id is set to the value _id_counter holds now.
SetNodeId(t) ==
    /\ pc[t] = "assign"
    /\ created' = [created EXCEPT ![t] = Append(@, id_counter)]
    /\ pc' = [pc EXCEPT ![t] = "idle"]
    /\ UNCHANGED <<id_counter, loaded, built_trees>>
    /\ UNCHANGED <<engineVars, cacheVars, mathVars, fileVars, dpVars>>

NextNodes ==
    \E t \in Threads :
        NewNode(t) \/ LoadCounter(t) \/ StoreCounter(t) \/ SetNodeId(t)

SpecNodes == Init /\ [][NextNodes]_vars

\* The nodes created so far, each named by its thread and its position.
CreatedNodes == { <<t, i>> : t \in Threads, i \in 1..MaxCreated }
                \cap { x \in Threads \X (1..MaxCreated) : x[2] <= Len(created[x[1]]) }

\* C6: any two distinct RecurrenceTreeNode objects created without an
\* explicit node_id have different node_id values, also when they are
\* created concurrently in different threads.
C6_NodeIdsAreUnique ==
    \A x \in CreatedNodes, y \in CreatedNodes :
        x # y => created[x[1]][x[2]] # created[y[1]][y[2]]

\* C6, the schedule on which it fails: both threads read the counter before
\* either writes it, and both nodes get node_id 1.
C6_TwoNodesWithTheSameId ==
    /\ created["t1"] = <<1>>
    /\ created["t2"] = <<1>>
    /\ id_counter = 1

\* C6 for the nodes of one thread while no other thread creates any.
C6_UniqueWhileOnlyOneThreadCreates ==
    (created["t2"] = <<>> /\ pc["t2"] = "idle") =>
        \A i \in 1..Len(created["t1"]), j \in 1..Len(created["t1"]) :
            i # j => created["t1"][i] # created["t1"][j]

C6_OneThreadCreatedTwoNodes ==
    created["t2"] = <<>> /\ pc["t2"] = "idle" /\ created["t1"] = <<1, 2>>

(***************************************************************************)
(* The dynamic programming analyzer over a set of node objects             *)
(***************************************************************************)
MaxCalls == 5
MaxIds == 5

\* max_levels: int = 4
DefaultMaxLevels == 4

FnCountdown == parse_code(SrcCountdown).ast.functions[1]

FnG == parse_code(SrcG).ast.functions[1]

ObjCountdownProgram == Object(1, Program(<<FnCountdown>>))

ObjCountdown == Object(2, FnCountdown)

ObjGProgram == Object(3, Program(<<FnG>>))

ObjG == Object(4, FnG)

ObjBothProgram == Object(5, Program(<<FnG, FnCountdown>>))

ObjEmptyProgram == Object(6, Program(<<>>))

DpObjects ==
    { ObjCountdownProgram, ObjCountdown, ObjGProgram, ObjG, ObjBothProgram,
      ObjEmptyProgram }

\* inserted records, for each key of the cache, the value stored when the
\* key was inserted; entries leave it when the cache is cleared.
Remember(dp) ==
    IF dp.key \in DOMAIN dp.cache /\ dp.key \notin DOMAIN dp_cache
    THEN (dp.key :> dp.cache[dp.key]) @@ inserted
    ELSE inserted

\* The counters if the miss were counted when the result is stored.
CountCall_when_stored(call) ==
    /\ cache_hits' = IF call.hit THEN cache_hits + 1 ELSE cache_hits
    /\ cache_misses' = IF ~call.hit /\ call.raised = <<>>
                       THEN cache_misses + 1 ELSE cache_misses
    /\ dp_calls' = [made |-> dp_calls.made + 1,
                    stored |-> IF ~call.hit /\ call.raised = <<>>
                               THEN dp_calls.stored + 1 ELSE dp_calls.stored]

\* The counters after a call of analyze_with_dp: a hit counts as a hit; a
\* miss is counted before the analysis runs, whether it returns or raises.
CountCall(call) ==
    /\ cache_hits' = IF call.hit THEN cache_hits + 1 ELSE cache_hits
    /\ cache_misses' = IF call.hit THEN cache_misses ELSE cache_misses + 1
    /\ dp_calls' = [made |-> dp_calls.made + 1,
                    stored |-> IF ~call.hit /\ call.raised = <<>>
                               THEN dp_calls.stored + 1 ELSE dp_calls.stored]

AnalyzeWithDp ==
    /\ dp_calls.made < MaxCalls
    /\ \E obj \in DpObjects :
        \E call \in {analyze_with_dp(obj, dp_cache, analysis_cache,
                                     recursive_calls)} :
            /\ dp_cache' = call.cache
            /\ analysis_cache' = call.rec_cache
            /\ recursive_calls' = call.recursive_calls
            /\ inserted' = Remember(call)
            /\ CountCall(call)
            /\ last' = <<[op |-> "analyze_with_dp", obj |-> obj.id,
                          raised |-> call.raised, hit |-> call.hit,
                          key |-> call.key, tree |-> <<>>]>>
            /\ UNCHANGED <<engineVars, mathVars, fileVars, nodeVars>>

\* self.tree_builder.build_tree(relation, max_levels) for the relation found,
\* if one was found.
BuildTreeOf(relation) ==
    \E cache_key \in {tree_cache_key(relation, DefaultMaxLevels)} :
        IF relation = <<>> \/ cache_key \in DOMAIN built_trees
        THEN UNCHANGED <<id_counter, built_trees>>
        ELSE /\ id_counter < MaxIds
             /\ \E built \in {build_new_tree(id_counter, relation,
                                             DefaultMaxLevels)} :
                   /\ built_trees' = built_trees @@ (cache_key :> built.tree)
                   /\ id_counter' = built.counter

AnalyzeWithRecurrenceTree ==
    /\ dp_calls.made < MaxCalls
    /\ \E obj \in DpObjects :
        \E call \in {analyze_with_recurrence_tree(obj, dp_cache,
                                                  analysis_cache,
                                                  recursive_calls)} :
            /\ dp_cache' = call.cache
            /\ analysis_cache' = call.rec_cache
            /\ recursive_calls' = call.recursive_calls
            /\ inserted' = Remember(analyze_with_dp(obj, dp_cache,
                                                    analysis_cache,
                                                    recursive_calls))
            /\ CountCall(call)
            /\ BuildTreeOf(call.relation)
            /\ last' = <<[op |-> "analyze_with_recurrence_tree",
                          obj |-> obj.id, raised |-> call.raised,
                          hit |-> call.hit, key |-> call.key,
                          tree |-> call.tree]>>
            /\ UNCHANGED <<engineVars, mathVars, fileVars, pc, loaded, created>>

\* clear_cache; recursive_calls of the base analyzer is not among what it
\* clears.
ClearCache ==
    /\ dp_cache' = <<>>
    /\ built_trees' = <<>>
    /\ analysis_cache' = <<>>
    /\ cache_hits' = 0
    /\ cache_misses' = 0
    /\ dp_calls' = NoCalls
    /\ inserted' = <<>>
    /\ last' = <<[op |-> "clear_cache"]>>
    /\ UNCHANGED <<recursive_calls, id_counter, pc, loaded, created>>
    /\ UNCHANGED <<engineVars, mathVars, fileVars>>

NextDP == AnalyzeWithDp \/ AnalyzeWithRecurrenceTree \/ ClearCache

SpecDP == Init /\ [][NextDP]_vars

\* C4: cached entries are never mutated after insertion: the value stored
\* under a key of the analysis cache when it was inserted is the value
\* found there in every later state until the cache is cleared, also after
\* analyze_with_recurrence_tree has run on a node whose ComplexityResult is
\* already cached.
C4_CachedEntriesNeverMutated ==
    \A key \in DOMAIN dp_cache : dp_cache[key] = inserted[key]

\* analyze_with_recurrence_tree found the result of the program of the
\* countdown function in the cache and replaced its big_o "n" by the total
\* work of the tree.
C4_BigOOverwrittenInCache ==
    /\ last # <<>>
    /\ last[1].op = "analyze_with_recurrence_tree"
    /\ last[1].hit
    /\ last[1].key = generate_node_key(ObjCountdownProgram)
    /\ inserted[last[1].key] = ComplexityResult(<<"n">>, <<"n">>)
    /\ dp_cache[last[1].key].big_o = Str_On
    /\ dp_cache[last[1].key].theta = <<<<"n">>>>

\* What holds of C4: omega and theta of a cached entry never change, and
\* the entries of nodes other than programs never change at all.
C4_OnlyBigOOfProgramsChanges ==
    \A key \in DOMAIN dp_cache :
        /\ dp_cache[key].omega = inserted[key].omega
        /\ dp_cache[key].theta = inserted[key].theta
        /\ key.type # "Program" => dp_cache[key] = inserted[key]

C4_FunctionResultCached ==
    /\ generate_node_key(ObjG) \in DOMAIN dp_cache
    /\ last # <<>>
    /\ last[1].op = "analyze_with_recurrence_tree"
    /\ last[1].key = generate_node_key(ObjG)
    /\ last[1].hit

\* What holds of the counters and the cache in every state.
CountersMatchTheCalls ==
    /\ cache_hits + cache_misses = dp_calls.made
    /\ Cardinality(DOMAIN dp_cache) = dp_calls.stored

\* The state clear_cache leaves.
AllCleared ==
    /\ dp_cache = <<>>
    /\ built_trees = <<>>
    /\ analysis_cache = <<>>
    /\ cache_hits = 0
    /\ cache_misses = 0

\* C29: after any sequence of analyze_with_dp and clear_cache calls,
\* cache_hits + cache_misses is the number of analyze_with_dp calls since
\* the last clear_cache, the number of cached entries is the number of
\* misses that returned normally, a hit changes neither the cache nor
\* cache_misses, and clear_cache leaves the analysis cache, the tree cache,
\* the recursive-analysis cache and both counters empty or zero.
C29_CountersFollowTheCalls ==
    [][ /\ CountersMatchTheCalls'
        /\ (last'[1].op = "analyze_with_dp" /\ last'[1].hit) =>
               /\ dp_cache' = dp_cache
               /\ cache_misses' = cache_misses
               /\ cache_hits' = cache_hits + 1
        /\ last'[1].op = "clear_cache" => AllCleared' ]_vars

\* C29: a hit, after a miss that raised and a miss that stored its result,
\* with a tree in the tree cache.
C29_HitAfterARaisingMiss ==
    /\ last # <<>>
    /\ last[1].op = "analyze_with_dp"
    /\ last[1].hit
    /\ cache_hits = 1
    /\ cache_misses = 2
    /\ dp_calls = [made |-> 3, stored |-> 1]
    /\ Cardinality(DOMAIN dp_cache) = 1
    /\ built_trees # <<>>


(***************************************************************************)
(* The case analyzer on the program of one function, called as the main    *)
(* window calls it: with the recurrence and the complexity of the          *)
(* asymptotic engine, or with a recurrence and a complexity of the         *)
(* caller's.                                                               *)
(***************************************************************************)
MidStmt == Assignment("mid", ArgHalf)

\* AsymptoticAnalyzer.analyze: the pair (recurrence, bound).
analyze(node, recursive_info) ==
    LET recurrence == construct_recurrence(node, recursive_info)
    IN  [recurrence |-> recurrence, bound |-> solve_recurrence(recurrence)]

\* The recursive_info the main window passes: the classification of the
\* first function that has recursion, otherwise None.
window_recursive_info(ast) ==
    LET infos == [i \in 1..Len(ast.functions) |->
                     analyze_recursive_algorithm(<<>>, ast.functions[i]).result]
        rec == { i \in 1..Len(infos) : infos[i].has_recursion }
    IN  IF rec = {} THEN <<>> ELSE infos[MinOf(rec)]

\* The (recurrence_eq, complexity) pairs a caller passes.
CaseInputs ==
    { <<Str_Tn_eq \o <<"c">>, Str_Theta_1>>,
      <<Str_Tn_eq \o Str_T_n_half \o Str_plus \o Str_O1, Str_Theta_log_n>>,
      <<Str_Tn_eq \o <<"c", "n">>, Str_Theta_n>>,
      <<<<>>, <<>>>> }

\* The statement before an If of two statements, or the last one, becomes
\* the then-branch of an If without else.
GuardLast ==
    /\ out = NoOut
    /\ fn.body # <<>>
    /\ LET n == Len(fn.body)
           f == [fn EXCEPT !.body[n] = If(IfCond, <<@>>, <<>>)]
       IN  FitsCalls(f) /\ fn' = f
    /\ UNCHANGED <<out, restVars>>

AppendMid ==
    /\ out = NoOut
    /\ LET f == [fn EXCEPT !.body = Append(@, MidStmt)]
       IN  FitsCalls(f) /\ fn' = f
    /\ UNCHANGED <<out, restVars>>

\* analyze_all_cases on the program, with the engine's own pair.
AnalyzeCasesOfEngine ==
    /\ out = NoOut
    /\ \E ast \in {Program(<<fn>>)} :
       \E asym \in {analyze(ast, window_recursive_info(ast))} :
          out' = [done |-> TRUE, ast |-> ast, from_engine |-> TRUE,
                  recurrence_eq |-> asym.recurrence.equation,
                  complexity |-> asym.bound.complexity,
                  cases |-> analyze_all_cases(ast, "unknown",
                                              asym.recurrence.equation,
                                              asym.bound.complexity)]
    /\ UNCHANGED <<fn, restVars>>

\* analyze_all_cases on the program, with a pair of the caller's.
AnalyzeCasesOfCaller ==
    /\ out = NoOut
    /\ \E ast \in {Program(<<fn>>)} :
       \E given \in CaseInputs :
          out' = [done |-> TRUE, ast |-> ast, from_engine |-> FALSE,
                  recurrence_eq |-> given[1],
                  complexity |-> given[2],
                  cases |-> analyze_all_cases(ast, "unknown",
                                              given[1], given[2])]
    /\ UNCHANGED <<fn, restVars>>

NextCases ==
    \/ AppendStmt
    \/ AppendMid
    \/ JoinIf
    \/ GuardLast
    \/ LoopLast
    \/ AnalyzeCasesOfEngine
    \/ AnalyzeCasesOfCaller

SpecCases == Init /\ [][NextCases]_vars

(***************************************************************************)
(* Claims about the case analyzer                                          *)
(***************************************************************************)
\* The complexities of the three cases, in the order best, worst, average.
CaseComplexities ==
    <<out.cases.best.complexity, out.cases.worst.complexity,
      out.cases.average.complexity>>

CasesBuilt == out.done /\ ~out.cases.raised

\* C15: whenever the cases are built for the type constant, the best, the
\* worst and the average case all have complexity Θ(1); and a function
\* without loop and without recursion analysed with T(n) = c and Θ(1) gets
\* the type constant.
C15_ConstantTypeIsConstantInAllCases ==
    /\ (CasesBuilt /\ out.cases.algorithm_type = "constant") =>
           CaseComplexities = <<Str_Theta_1, Str_Theta_1, Str_Theta_1>>
    /\ ( /\ CasesBuilt
         /\ LoopNesting(fn) = 0
         /\ CallSites(fn, fn.name) = <<>>
         /\ out.recurrence_eq = Str_Tn_eq \o <<"c">>
         /\ out.complexity = Str_Theta_1 ) =>
           out.cases.algorithm_type = "constant"

\* C15 witness: a function of two plain statements analysed with T(n) = c
\* and Θ(1) has the type constant and Θ(1) three times.
C15_ConstantFunctionAnalysed ==
    /\ CasesBuilt
    /\ fn.body = <<PlainStmt, Return(Number(1))>>
    /\ out.recurrence_eq = Str_Tn_eq \o <<"c">>
    /\ out.complexity = Str_Theta_1
    /\ out.cases.algorithm_type = "constant"
    /\ CaseComplexities = <<Str_Theta_1, Str_Theta_1, Str_Theta_1>>


\* The two exclusive calls of a binary search are made on a half.
HalvesShape ==
    /\ BinarySearchShape
    /\ \A i \in 1..Len(CallSites(fn, fn.name)) :
           CallSites(fn, fn.name)[i].args = <<ArgHalf>>

\* C16: for a function with two mutually exclusive recursive calls on the
\* halves, analysed with T(n) = T(n/2) + O(1) and Θ(log n), the type is
\* binary_search, the best case Θ(1) and the worst and the average case
\* Θ(log n).
C16_BinarySearchCases ==
    ( /\ CasesBuilt
      /\ HalvesShape
      /\ out.recurrence_eq = HalvingRelation
      /\ out.complexity = Str_Theta_log_n ) =>
        /\ out.cases.algorithm_type = "binary_search"
        /\ CaseComplexities = <<Str_Theta_1, Str_Theta_log_n, Str_Theta_log_n>>

\* C16 witness of the divergence: the binary search with a midpoint is
\* resolved as divide_conquer, with best and average case Θ(n log n).
C16_BinarySearchResolvedAsDivideConquer ==
    /\ CasesBuilt
    /\ fn.body = <<MidStmt, If(IfCond, <<Return(RecCall(ArgHalf))>>,
                                <<Return(RecCall(ArgHalf))>>)>>
    /\ out.recurrence_eq = HalvingRelation
    /\ out.complexity = Str_Theta_log_n
    /\ out.cases.algorithm_type = "divide_conquer"
    /\ CaseComplexities =
           <<Str_Theta_n_log_n, Str_Theta_log_n, Str_Theta_n_log_n>>

\* C16, the part the code has: the worst case of that analysis is Θ(log n).
C16_WorstCaseIsLogarithmic ==
    ( /\ CasesBuilt
      /\ HalvesShape
      /\ out.recurrence_eq = HalvingRelation
      /\ out.complexity = Str_Theta_log_n ) =>
        out.cases.worst.complexity = Str_Theta_log_n

\* The number of For, While and Repeat loops under a node.
RECURSIVE LoopCount(_)
LoopCount(node) ==
    LET sum(items) ==
            LET RECURSIVE S(_)
                S(i) == IF i > Len(items) THEN 0
                        ELSE LoopCount(items[i]) + S(i + 1)
            IN  S(1)
    IN  (IF node.k \in {"For", "While", "Repeat"} THEN 1 ELSE 0)
          + (IF hasattr(node, "body") THEN sum(node.body) ELSE 0)
          + (IF node.k = "If" THEN sum(node.then_body) + sum(node.else_body)
             ELSE 0)

\* True when a Return is written under the node.
RECURSIVE HasReturn(_)
HasReturn(node) ==
    LET some(items) == \E i \in 1..Len(items) : HasReturn(items[i])
    IN  \/ node.k = "Return"
        \/ hasattr(node, "body") /\ some(node.body)
        \/ node.k = "If" /\ (some(node.then_body) \/ some(node.else_body))

\* The statements of fn that are loops.
TopLoops == { i \in 1..Len(fn.body) : fn.body[i].k \in {"For", "While"} }

\* fn does not call itself and has one loop, a statement of its body.
SingleLoopShape ==
    /\ CallSites(fn, fn.name) = <<>>
    /\ LoopCount(fn) = 1
    /\ Cardinality(TopLoops) = 1

TheLoop == fn.body[CHOOSE i \in TopLoops : TRUE]

\* The loop body returns from inside an If.
ReturnsFromIf(loop) ==
    \E j \in 1..Len(loop.body) :
        loop.body[j].k = "If" /\ HasReturn(loop.body[j])

\* C17: for a non-recursive function with a single loop, a loop body that
\* returns from inside an If gives the type linear_search with best case
\* Θ(1) and worst case Θ(n), and a loop body without a return gives the
\* type linear_processing.
C17_EarlyExitSeparatesSearchFromProcessing ==
    (CasesBuilt /\ SingleLoopShape) =>
        /\ ReturnsFromIf(TheLoop) =>
               /\ out.cases.algorithm_type = "linear_search"
               /\ out.cases.best.complexity = Str_Theta_1
               /\ out.cases.worst.complexity = Str_Theta_n
        /\ ~HasReturn(TheLoop) =>
               out.cases.algorithm_type = "linear_processing"

\* C17 witness of the divergence: for a loop that returns from inside an If
\* the detection fails on the If, the type stays unknown and the three cases
\* repeat the complexity that was passed.
C17_EarlyExitInsideIfNotDetected ==
    /\ CasesBuilt
    /\ fn.body = <<While(LoopCond, <<If(IfCond, <<Return(Number(1))>>, <<>>)>>)>>
    /\ out.from_engine
    /\ out.complexity = <<"n">>
    /\ detect_algorithm_type(out.ast) = "Raise"
    /\ out.cases.algorithm_type = "unknown"
    /\ CaseComplexities = <<<<"n">>, <<"n">>, <<"n">>>>

\* C17, the part the code has: a loop body without an If is linear_search
\* when a Return is one of its statements and linear_processing otherwise.
C17_HoldsForLoopBodiesWithoutIf ==
    ( /\ CasesBuilt
      /\ SingleLoopShape
      /\ \A j \in 1..Len(TheLoop.body) : TheLoop.body[j].k # "If" ) =>
        out.cases.algorithm_type =
            IF HasReturn(TheLoop) THEN "linear_search" ELSE "linear_processing"


(***************************************************************************)
(* The base analyzer on the statements of a function: by a new analyzer,   *)
(* or by one that has analysed the function before and keeps its           *)
(* recursive_calls.                                                        *)
(***************************************************************************)
AnalyzeStatement ==
    /\ out = NoOut
    /\ \E i \in 1..Len(fn.body) :
       \E known \in {<<>>, detect_recursive_functions(fn, <<>>)} :
       \E run \in {base_analyze(fn.body[i], known)} :
          out' = [done |-> TRUE, node |-> fn.body[i],
                  recursive_calls |-> run.recursive_calls,
                  result |-> run.result]
    /\ UNCHANGED <<fn, restVars>>

NextBranches == AppendStmt \/ JoinIf \/ GuardLast \/ LoopLast \/ AnalyzeStatement

SpecBranches == Init /\ [][NextBranches]_vars

(***************************************************************************)
(* Claims about the base analyzer on conditionals                          *)
(***************************************************************************)
\* The rate of growth of the bounds the analyzer writes for these functions,
\* as a rank: 1, n, n^k, then k^n times n to the number of factors "n*" (k is
\* the same for every bound of one analysis).
Growth(comp) ==
    IF Contains(comp, <<"^", "n">>)
    THEN 1000 + Cardinality({ i \in 1..Len(comp) : comp[i] = "*" })
    ELSE IF comp = <<"1">> THEN 0
    ELSE IF comp = <<"n">> THEN 1
    ELSE StrToInt(PowerText(comp))

\* The result of a branch: its statements in sequence.
BranchResult(items) ==
    combine_sequential([i \in 1..Len(items) |->
                           analyze_node(items[i], out.recursive_calls)])

IfAnalysed == out.done /\ out.node.k = "If"

ThetaIsSetWhenBoundsAgree ==
    out.result.theta =
        IF out.result.big_o = out.result.omega THEN <<out.result.big_o>>
        ELSE <<>>

\* C18: for an If with an else branch big_o is the larger of the big_o of
\* the two branches and omega the smaller of their omega; for an If without
\* else omega is 1; theta is big_o exactly when big_o equals omega and None
\* otherwise.
C18_ConditionalBoundedByBranches ==
    IfAnalysed =>
        LET t == BranchResult(out.node.then_body)
            e == BranchResult(out.node.else_body)
        IN  /\ out.node.else_body # <<>> =>
                /\ out.result.big_o \in {t.big_o, e.big_o}
                /\ Growth(out.result.big_o) =
                       MaxOf({Growth(t.big_o), Growth(e.big_o)})
                /\ out.result.omega \in {t.omega, e.omega}
                /\ Growth(out.result.omega) =
                       MinOf({Growth(t.omega), Growth(e.omega)})
            /\ out.node.else_body = <<>> => out.result.omega = <<"1">>
            /\ ThetaIsSetWhenBoundsAgree

\* C18 witness of the divergence: the then-branch loops over a call of a
\* function with two recursive calls, O(n*2^n), the else-branch makes the
\* call once, O(2^n), and the If is reported O(2^n).
C18_SmallerBranchReportedAsUpperBound ==
    /\ IfAnalysed
    /\ out.node = If(IfCond,
                     <<While(LoopCond, <<Assignment("x", RecCall(ArgDec1))>>)>>,
                     <<Assignment("x", RecCall(ArgDec1))>>)
    /\ "f" \in DOMAIN out.recursive_calls
    /\ out.recursive_calls["f"].pattern = "binary"
    /\ BranchResult(out.node.then_body).big_o = <<"n", "*", "2", "^", "n">>
    /\ BranchResult(out.node.else_body).big_o = <<"2", "^", "n">>
    /\ out.result.big_o = <<"2", "^", "n">>

\* The bound is not a product the analyzer could not simplify.
IsSimplified(comp) == ~Contains(comp, <<"*">>)

\* C18, the part the code has: the statement holds when the bounds of the
\* branches are simplified ones, and the parts about an If without else and
\* about theta hold for every If.
C18_HoldsForSimplifiedBranchBounds ==
    IfAnalysed =>
        LET t == BranchResult(out.node.then_body)
            e == BranchResult(out.node.else_body)
        IN  /\ ( /\ out.node.else_body # <<>>
                 /\ \A c \in {t.big_o, e.big_o, t.omega, e.omega} :
                        IsSimplified(c) ) =>
                /\ out.result.big_o \in {t.big_o, e.big_o}
                /\ Growth(out.result.big_o) =
                       MaxOf({Growth(t.big_o), Growth(e.big_o)})
                /\ out.result.omega \in {t.omega, e.omega}
                /\ Growth(out.result.omega) =
                       MinOf({Growth(t.omega), Growth(e.omega)})
            /\ out.node.else_body = <<>> => out.result.omega = <<"1">>
            /\ ThetaIsSetWhenBoundsAgree

\* C18: an If of a loop and a plain statement is O(n), Ω(1), theta None.
C18_LoopAgainstPlainStatement ==
    /\ IfAnalysed
    /\ out.node = If(IfCond, <<LoopOverInput>>, <<PlainStmt>>)
    /\ out.result = [big_o |-> <<"n">>, omega |-> <<"1">>, theta |-> <<>>]


(***************************************************************************)
(* The Master Theorem step of the asymptotic engine on recurrences         *)
(* a T(n/b) + n^c.                                                         *)
(***************************************************************************)
MaxA == 66
MaxB == 8
MaxC == 2

\* The text of n^c as the work term of a recurrence.
WorkTerm(c) ==
    CASE c = 0 -> <<"c">>
      [] c = 1 -> <<"n">>
      [] OTHER -> <<"n", "^">> \o IntToStr(c)

MasterRecurrence(a, b, c) ==
    RecurrenceEquation(
        Str_Tn_eq \o kT(a, <<"/">> \o IntToStr(b)) \o Str_plus \o WorkTerm(c),
        a, b, WorkTerm(c), <<<<"T(1)", "c">>>>, "Master Theorem")

\* _solve_recurrence on a recurrence of the Master Theorem.
SolveMasterRecurrence ==
    /\ out = NoOut
    /\ \E a \in 1..MaxA, b \in 2..MaxB, c \in 0..MaxC :
       \E rec \in {MasterRecurrence(a, b, c)} :
          out' = [done |-> TRUE, a |-> a, b |-> b, c |-> c,
                  recurrence |-> rec, bound |-> solve_recurrence(rec)]
    /\ UNCHANGED <<fn, restVars>>

NextMaster == SolveMasterRecurrence

SpecMaster == Init /\ [][NextMaster]_vars

(***************************************************************************)
(* Claims about the Master Theorem step                                    *)
(***************************************************************************)
\* The bound of the Master Theorem for integers a, b, c: c is compared with
\* log_b(a) by comparing b^c with a; the exponent log_b(a) is written as
\* _format_complexity writes it.
MasterBound(a, b, c) ==
    IF Pow(b, c) < a THEN format_complexity(a, b)
    ELSE IF Pow(b, c) = a
    THEN (CASE c = 0 -> Str_log_n
            [] c = 1 -> <<"n", " ">> \o Str_log_n
            [] OTHER -> <<"n", "^">> \o IntToStr(c) \o <<" ">> \o Str_log_n)
    ELSE WorkTerm(c)

\* C23: for a T(n/b) + n^c with integers a >= 1, b >= 2, c >= 0 the step
\* returns Θ(n^log_b(a)) when c < log_b(a), Θ(n^c log n) when c = log_b(a)
\* (Θ(log n) for c = 0, Θ(n log n) for c = 1) and Θ(n^c) when c > log_b(a).
C23_MasterTheoremBounds ==
    out.done =>
        /\ out.bound.notation = "Θ"
        /\ out.bound.complexity = MasterBound(out.a, out.b, out.c)

\* C23 witness of the divergence: 65 T(n/8) + n^2 has log_8(65) > 2, and
\* the step returns Θ(n^2 log n), the bound of log_8(a) = 2.
C23_NearPowerTakenForEquality ==
    /\ out.done
    /\ out.a = 65
    /\ out.b = 8
    /\ out.c = 2
    /\ Pow(out.b, out.c) < out.a
    /\ out.bound.complexity = <<"n", "^", "2", " ">> \o Str_log_n
    /\ out.bound.explanation = <<"Teorema Maestro Caso", 2, 65, 8>>

\* C23, the part the code has: the three bounds for b^c below 63, where no
\* integer a other than b^c has log_b(a) within 0.01 of c.
C23_HoldsAwayFromTheTolerance ==
    (out.done /\ Pow(out.b, out.c) < 63) =>
        /\ out.bound.notation = "Θ"
        /\ out.bound.complexity = MasterBound(out.a, out.b, out.c)

\* C23: the three cases on 2T(n/2) + c, 2T(n/2) + n and 2T(n/2) + n^2.
C23_MergeSortRecurrences ==
    /\ out.done
    /\ out.a = 2
    /\ out.b = 2
    /\ out.bound.complexity =
           CASE out.c = 0 -> <<"n">>
             [] out.c = 1 -> <<"n", " ">> \o Str_log_n
             [] OTHER -> <<"n", "^", "2">>


(***************************************************************************)
(* The math engine on expressions built operator by operator, as the       *)
(* value a function returns.                                               *)
(***************************************************************************)
MaxOps == 3

\* The operands an expression is built from.
Leaves == {Var("n"), Number(1), Call("g", <<Var("n")>>)}

\* The number of operators of an expression.
RECURSIVE OpCount(_)
OpCount(expr) ==
    CASE expr.k \in {"BinOp", "Condition", "BoolOp"} ->
             1 + OpCount(expr.left) + OpCount(expr.right)
      [] expr.k = "UnaryOp" -> 1 + OpCount(expr.operand)
      [] OTHER -> 0

Operate(kind, left, right) ==
    CASE kind = "BinOp" -> BinOp(left, "+", right)
      [] kind = "Condition" -> Condition(left, "<", right)
      [] kind = "BoolOp" -> BoolOp(left, "and", right)

ReturnLeaf ==
    /\ out = NoOut
    /\ fn.body = <<>>
    /\ \E leaf \in Leaves : fn' = [fn EXCEPT !.body = <<Return(leaf)>>]
    /\ UNCHANGED <<out, restVars>>

\* The returned expression becomes an operand of a new operator.
CombineExpr ==
    /\ out = NoOut
    /\ fn.body # <<>>
    /\ OpCount(fn.body[1].expr) < MaxOps
    /\ \E kind \in {"BinOp", "Condition", "BoolOp"}, leaf \in Leaves :
       \E expr \in {Operate(kind, fn.body[1].expr, leaf),
                    Operate(kind, leaf, fn.body[1].expr)} :
          fn' = [fn EXCEPT !.body = <<Return(expr)>>]
    /\ UNCHANGED <<out, restVars>>

NegateExpr ==
    /\ out = NoOut
    /\ fn.body # <<>>
    /\ OpCount(fn.body[1].expr) < MaxOps
    /\ fn' = [fn EXCEPT !.body = <<Return(UnaryOp("not", fn.body[1].expr))>>]
    /\ UNCHANGED <<out, restVars>>

\* _get_cost on the returned expression, in the function fn.
CostOfExpr ==
    /\ out = NoOut
    /\ fn.body # <<>>
    /\ \E expr \in {fn.body[1].expr} :
          out' = [done |-> TRUE, expr |-> expr,
                  cost |-> get_cost(expr, fn.name, function_costs)]
    /\ UNCHANGED <<fn, restVars>>

NextExprs == ReturnLeaf \/ CombineExpr \/ NegateExpr \/ CostOfExpr

SpecExprs == Init /\ [][NextExprs]_vars

(***************************************************************************)
(* Claims about the cost of expressions                                    *)
(***************************************************************************)
CostOfOperand(expr) == get_cost(expr, fn.name, function_costs)

One == Cost(1, EmptyBag)

\* The cost the operands of the expression costed give: their sum plus 1.
OperandsPlusOne ==
    IF out.expr.k = "UnaryOp"
    THEN cost_add(CostOfOperand(out.expr.operand), One)
    ELSE cost_add(cost_add(CostOfOperand(out.expr.left),
                           CostOfOperand(out.expr.right)), One)

\* C24: the cost of every BinOp, Condition, BoolOp and UnaryOp node is the
\* sum of the costs of its operands plus 1.
C24_OperatorCostsOperandsPlusOne ==
    ( /\ out.done
      /\ out.expr.k \in {"BinOp", "Condition", "BoolOp", "UnaryOp"} ) =>
        out.cost = OperandsPlusOne

\* C24 witness of the divergence: (n < 1) and 1 has operands of cost 3 and
\* 1, and its cost is 1.
C24_BoolOpCostsOne ==
    /\ out.done
    /\ out.expr = BoolOp(Condition(Var("n"), "<", Number(1)), "and", Number(1))
    /\ CostOfOperand(out.expr.left) = Cost(3, EmptyBag)
    /\ CostOfOperand(out.expr.right) = One
    /\ out.cost = One

\* C24: not (n + 1) has an operand of cost 3, and its cost is 1.
C24_UnaryOpCostsOne ==
    /\ out.done
    /\ out.expr = UnaryOp("not", BinOp(Var("n"), "+", Number(1)))
    /\ out.cost = One

\* C24, the part the code has: BinOp and Condition.
C24_HoldsForBinOpAndCondition ==
    (out.done /\ out.expr.k \in {"BinOp", "Condition"}) =>
        out.cost = OperandsPlusOne

\* C24: (n + 1) < 1 costs 3 + 1 + 1.
C24_ConditionCosted ==
    /\ out.done
    /\ out.expr = Condition(BinOp(Var("n"), "+", Number(1)), "<", Number(1))
    /\ out.cost = Cost(5, EmptyBag)


(***************************************************************************)
(* One RecurrenceTreeBuilder building trees, in one thread.                *)
(***************************************************************************)
MaxLevels == 3
MaxTrees == 2

Str_2T_n_half == kT(2, <<"/", "2">>)

\* T(n) = <terms> + O(<work>)
RelationText(terms, work) == Str_Tn_eq \o terms \o Str_plus \o BigO(work)

FibonacciRelation == RelationText(Str_T_n_1 \o Str_plus \o Str_T_n_2, <<"1">>)

HalvingText == RelationText(Str_T_n_half, <<"1">>)

Relations ==
    { RelationText(Str_2T_n_half, <<"n">>),
      RelationText(kT(1, <<"/", "2">>), <<"1">>),
      RelationText(Str_T_n_1, <<"1">>),
      RelationText(kT(2, <<"-", "1">>), <<"1">>),
      FibonacciRelation,
      HalvingText }

\* builder.build_tree(relation, max_levels)
BuildTree ==
    \E relation \in Relations, max_levels \in 0..MaxLevels :
        \E cache_key \in {tree_cache_key(relation, max_levels)} :
            IF cache_key \in DOMAIN built_trees
            THEN /\ out' = [done |-> TRUE, relation |-> relation,
                            max_levels |-> max_levels,
                            tree |-> built_trees[cache_key]]
                 /\ UNCHANGED <<id_counter, built_trees>>
                 /\ UNCHANGED <<fn, pc, loaded, created>>
                 /\ UNCHANGED <<cacheVars, mathVars, fileVars, dpVars>>
            ELSE /\ Cardinality(DOMAIN built_trees) < MaxTrees
                 /\ \E built \in {build_new_tree(id_counter, relation,
                                                 max_levels)} :
                       /\ built_trees' = built_trees @@ (cache_key :> built.tree)
                       /\ id_counter' = built.counter
                       /\ out' = [done |-> TRUE, relation |-> relation,
                                  max_levels |-> max_levels,
                                  tree |-> built.tree]
                 /\ UNCHANGED <<fn, pc, loaded, created>>
                 /\ UNCHANGED <<cacheVars, mathVars, fileVars, dpVars>>

NextTrees == BuildTree

SpecTrees == Init /\ [][NextTrees]_vars

(***************************************************************************)
(* Claims about recurrence trees                                           *)
(***************************************************************************)
TreeNodes == DOMAIN out.tree.nodes

ChildSizes(node_id) ==
    [ i \in 1..Len(out.tree.nodes[node_id].children) |->
        out.tree.nodes[out.tree.nodes[node_id].children[i]].problem_size ]

\* The nodes above the level bound: their children are within it.
AboveTheBound ==
    { node_id \in TreeNodes :
        out.tree.nodes[node_id].level + 1 < out.max_levels }

\* The recursive terms of the relations: how many calls each relation
\* makes, as its text states.
TermCount(relation) ==
    IF relation = FibonacciRelation THEN 2
    ELSE IF relation \in {RelationText(Str_2T_n_half, <<"n">>),
                          RelationText(kT(2, <<"-", "1">>), <<"1">>)} THEN 2
    ELSE 1

IsHalving(relation) ==
    relation \in {HalvingText, RelationText(kT(1, <<"/", "2">>), <<"1">>),
                  RelationText(Str_2T_n_half, <<"n">>)}

\* C25: build_tree gives every node above the level bound exactly c children
\* for each recursive term c T(arg) of the relation, labelled with the
\* argument: two children for T(n) = T(n-1) + T(n-2) + O(1), and a chain of
\* halved sizes (labels that divide) for T(n) = T(n/2) + O(1).
C25_ChildrenFollowTheTerms ==
    out.done =>
        \A node_id \in AboveTheBound :
            /\ Len(out.tree.nodes[node_id].children) = TermCount(out.relation)
            /\ IsHalving(out.relation) =>
                   \A i \in 1..Len(ChildSizes(node_id)) :
                       Contains(ChildSizes(node_id)[i], <<"/">>)

\* C25 witness of the divergence: the tree of T(n) = T(n-1) + T(n-2) + O(1)
\* with three levels is the chain n, n-1, n-2 of the relation
\* T(n) = T(n-1) + O(1).
C25_FibonacciTreeIsAChain ==
    /\ out.done
    /\ out.relation = FibonacciRelation
    /\ out.max_levels = 3
    /\ out.tree.pattern_type = "linear"
    /\ out.tree.recurrence_relation = RelationText(Str_T_n_1, <<"1">>)
    /\ Cardinality(TreeNodes) = 3
    /\ ChildSizes(out.tree.root) = << <<"n", "-", "1">> >>
    /\ \A node_id \in TreeNodes : Len(out.tree.nodes[node_id].children) <= 1

\* C25: the tree of T(n) = T(n/2) + O(1) is the same chain n, n-1, n-2.
C25_HalvingTreeDecrements ==
    /\ out.done
    /\ out.relation = HalvingText
    /\ out.max_levels = 3
    /\ ChildSizes(out.tree.root) = << <<"n", "-", "1">> >>
    /\ \E node_id \in TreeNodes :
           out.tree.nodes[node_id].problem_size = <<"n", "-", "2">>

\* C25, the part the code has: for a relation one of the three patterns of
\* _parse_recurrence matches, every node above the level bound has as many
\* children as the coefficient of the term (one when there is none); under
\* a divided size each child is labelled with its parent's label divided
\* once more, under a decremented size with n minus its level.
C25_HoldsForRelationsWithOneTerm ==
    (out.done /\ parse_recurrence(out.relation).type # "none") =>
        \A node_id \in AboveTheBound :
            /\ Len(out.tree.nodes[node_id].children) = TermCount(out.relation)
            /\ \A i \in 1..Len(ChildSizes(node_id)) :
                   ChildSizes(node_id)[i] =
                       IF IsHalving(out.relation)
                       THEN out.tree.nodes[node_id].problem_size \o <<"/", "2">>
                       ELSE <<"n", "-">>
                            \o IntToStr(out.tree.nodes[node_id].level + 1)

\* C25: the tree of T(n) = 2T(n/2) + O(n) with three levels has seven nodes,
\* two under the root and two under each of them.
C25_MergeSortTree ==
    /\ out.done
    /\ out.relation = RelationText(Str_2T_n_half, <<"n">>)
    /\ out.max_levels = 3
    /\ Cardinality(TreeNodes) = 7
    /\ ChildSizes(out.tree.root) = << <<"n", "/", "2">>, <<"n", "/", "2">> >>


Level(node_id) == out.tree.nodes[node_id].level

\* The places a node object is held as a child: a parent and a position in
\* its list of children.
ChildPlaces(node_id) ==
    { place \in TreeNodes \X (1..Cardinality(TreeNodes)) :
        /\ place[2] <= Len(out.tree.nodes[place[1]].children)
        /\ out.tree.nodes[place[1]].children[place[2]] = node_id }

\* The branching factor of the relation of the tree returned.
BranchingFactor ==
    IF out.tree.pattern_type = "linear" THEN 1
    ELSE parse_recurrence(out.tree.recurrence_relation).branches

WellFormedTree ==
    /\ \A node_id \in TreeNodes :
           /\ \A i \in 1..Len(out.tree.nodes[node_id].children) :
                  /\ out.tree.nodes[node_id].children[i] \in TreeNodes
                  /\ Level(out.tree.nodes[node_id].children[i])
                         = Level(node_id) + 1
           /\ Cardinality(ChildPlaces(node_id)) =
                  (IF node_id = out.tree.root THEN 0 ELSE 1)
    /\ Len(out.tree.level_costs) = out.max_levels
    /\ \A i \in 0..(out.max_levels - 1) :
           Cardinality({ node_id \in TreeNodes : Level(node_id) = i })
               = Pow(BranchingFactor, i)

\* C26: every tree build_tree(relation, max_levels) returns, max_levels >= 0,
\* is well formed within the level bound: each child is one level below its
\* parent, no node is the child of two parents, no node is at a level
\* >= max_levels, and level i holds a^i nodes for each of the max_levels
\* entries of level_costs.
C26_TreeIsWellFormedWithinTheBound ==
    out.done =>
        /\ WellFormedTree
        /\ \A node_id \in TreeNodes : Level(node_id) < out.max_levels

\* C26 witness of the divergence: with max_levels = 0 the tree has no levels
\* and no level costs, and holds the root at level 0.
C26_RootBuiltForNoLevels ==
    /\ out.done
    /\ out.max_levels = 0
    /\ out.tree.total_levels = 0
    /\ out.tree.level_costs = <<>>
    /\ TreeNodes = {out.tree.root}
    /\ Level(out.tree.root) = 0

\* C26, the part the code has: the tree is well formed, and with
\* max_levels >= 1 no node is at a level >= max_levels.
C26_HoldsForAtLeastOneLevel ==
    out.done =>
        /\ WellFormedTree
        /\ out.max_levels >= 1 =>
               \A node_id \in TreeNodes : Level(node_id) < out.max_levels

\* C26: a second tree, built after another one, of T(n) = 2T(n-1) + O(1)
\* with three levels: 1, 2 and 4 nodes, each the child of one parent.
C26_ExponentialTreeBuilt ==
    /\ out.done
    /\ out.max_levels = 3
    /\ out.tree.pattern_type = "exponential"
    /\ out.tree.root > 1
    /\ Cardinality(TreeNodes) = 7
    /\ Len(out.tree.level_costs) = 3
    /\ \A node_id \in TreeNodes \ {out.tree.root} :
           Cardinality(ChildPlaces(node_id)) = 1


(***************************************************************************)
(* One ComplexityAnalysisEngine: its AdvancedComplexityAnalyzer analyses   *)
(* one program after another.                                              *)
(***************************************************************************)
BodyKinds == {"constant", "loop", "one call", "two calls", "three calls"}

CallOf(name) == Return(Call(name, <<ArgDec1>>))

BodyOf(name, kind) ==
    CASE kind = "constant" -> <<Return(Number(1))>>
      [] kind = "loop" -> <<LoopOverInput>>
      [] kind = "one call" -> <<CallOf(name)>>
      [] kind = "two calls" -> <<CallOf(name), CallOf(name)>>
      [] kind = "three calls" -> <<CallOf(name), CallOf(name), CallOf(name)>>

FunctionOf(name, kind) == Function(name, <<"n">>, BodyOf(name, kind))

\* The programs handed to the engine: one function f or g, or both.
EnginePrograms ==
    { Program(<<FunctionOf(name, kind)>>) :
        name \in {"f", "g"}, kind \in BodyKinds }
    \cup { Program(<<FunctionOf("f", kind), FunctionOf("g", other)>>) :
             kind \in BodyKinds, other \in BodyKinds }

\* self.analyzer.analyze(ast) in analyze_code
EngineAnalyze ==
    \E program \in EnginePrograms :
        \E call \in {base_analyze(program, recursive_calls)} :
            /\ out' = [done |-> TRUE, program |-> program,
                       before |-> recursive_calls, result |-> call.result]
            /\ recursive_calls' = call.recursive_calls
            /\ UNCHANGED <<fn, dp_cache, inserted, cache_hits, cache_misses,
                           dp_calls>>
            /\ UNCHANGED <<cacheVars, mathVars, fileVars, nodeVars>>

NextEngine == EngineAnalyze

SpecEngine == Init /\ [][NextEngine]_vars

(***************************************************************************)
(* Claims about the engine's analyzer                                      *)
(***************************************************************************)
\* What a freshly constructed analyzer returns for the program analysed.
FreshResult == base_analyze(out.program, <<>>).result

\* The names the analyzer held as recursive before the call, of functions
\* of the program that do not call themselves.
StaleNames ==
    { name \in DOMAIN out.before :
        \E i \in 1..Len(out.program.functions) :
            /\ out.program.functions[i].name = name
            /\ name \notin DOMAIN base_analyze(out.program, <<>>).recursive_calls }

\* C28: analyze depends only on its argument: after any sequence of earlier
\* analyze calls on the same analyzer, analyze(P) returns the big_o, omega
\* and theta a freshly constructed analyzer returns for P.
C28_AnalyzeDependsOnlyOnItsArgument ==
    out.done => out.result = FreshResult

\* C28 witness of the divergence: an analyzer that has analysed a recursive
\* f reports the f that returns 1 as linear; a fresh one reports it
\* constant.
C28_EarlierRecursionIsRemembered ==
    /\ out.done
    /\ out.program = Program(<<FunctionOf("f", "constant")>>)
    /\ "f" \in DOMAIN out.before
    /\ out.before["f"].pattern = "linear"
    /\ out.result = ComplexityResult(<<"n">>, <<"n">>)
    /\ FreshResult = Constant
    /\ recursive_calls = out.before

\* C28, the part the code has: the result is that of a fresh analyzer when
\* every function of P whose name the analyzer holds as recursive calls
\* itself in P.
C28_HoldsWithoutStaleNames ==
    (out.done /\ StaleNames = {}) => out.result = FreshResult

\* C28: an analyzer that holds f and g as recursive analyses an f with two
\* calls and reports 2^n, as a fresh one does.
C28_RecursiveFunctionAnalysedAgain ==
    /\ out.done
    /\ out.program = Program(<<FunctionOf("f", "two calls")>>)
    /\ DOMAIN out.before = {"f", "g"}
    /\ out.before["f"].pattern = "multiple"
    /\ out.result = ComplexityResult(<<"2", "^", "n">>, <<"2", "^", "n">>)
    /\ StaleNames = {}

=============================================================================
